---- MODULE Spec2Model ----
(***************************************************************************)
(* A model of the linting core: the Traverser (depth-first AST walk with   *)
(* skip/break), Linter.verify (_verifyWithoutProcessors) and the           *)
(* multi-pass driver Linter.verifyAndFix.                                  *)
(*                                                                         *)
(* The specifications share the variables; each one moves only its own     *)
(* part of the state:                                                      *)
(*   SpecTraverse  - Traverser.traverse / Traverser._traverse              *)
(*   SpecVerify    - Linter._verifyWithoutProcessors and Linter.verify     *)
(*   SpecRules     - Rules.define, Rules.get and getRule                   *)
(*   SpecRunRules  - runRules and the try/catch around it                  *)
(*   SpecFixer     - one SourceCodeFixer.applyFixes call                   *)
(*   Spec          - Linter.verifyAndFix                                   *)
(*   SpecCursor    - CursorFactory.createCursor and the cursor it returns  *)
(*   SpecMerge     - sortedMerge of SourceCode                             *)
(*   SpecLoc       - the line table, getLocFromIndex, getIndexFromLoc      *)
(***************************************************************************)
EXTENDS Integers, Sequences, FiniteSets, TLC

VARIABLES
    \* ---- Traverser (shared/traverser) ----
    ast,        \* the tree handed to traverse(): node id -> node
    root,       \* the value handed to traverse() as the root
    _current,   \* Traverser._current
    _parents,   \* Traverser._parents
    _skipped,   \* Traverser._skipped
    _broken,    \* Traverser._broken
    stack,      \* the activation records of _traverse, innermost last
    emitted,    \* the enter/leave callbacks made so far, in order
    tpc,        \* "idle" (constructed), "running", "done" (traverse returned)
    \* ---- Linter.verifyAndFix (its arguments and locals) ----
    text,         \* the text argument
    shouldFix,    \* options.fix: "true", "false" or "predicate"
    currentText,  \* let currentText
    passNumber,   \* let passNumber
    fixed,        \* let fixed
    fixedResult,  \* let fixedResult: {fixed, output, messages}
    fpc,          \* "idle", "loop" (at the top of the do body), "after"
                  \* (behind the loop), "done" (returned fixedResult)
    verifyCalls,  \* history: the number of this.verify calls made
    lastVerify,   \* history: the latest this.verify call, [text, messages]
    applied,      \* history: the problems whose fixes the latest applyFixes call applied
    everApplied,  \* history: some applyFixes call applied a fix
    \* ---- Linter.verify / Linter._verifyWithoutProcessors ----
    vin,              \* the call: the text (as what it holds) and the options
    vpc,              \* "idle", "parser", "env", "parse", "directives", "rules",
                      \* "apply", "returned" (_verifyWithoutProcessors
                      \* returned), "done" (verify returned)
    envInFile,        \* const envInFile
    commentDirectives,\* const commentDirectives: {problems, disableDirectives}
    configuredRules,  \* Object.assign({}, config.rules, commentDirectives.configuredRules)
    lintingProblems,  \* let lintingProblems
    ruleCalls,        \* history: [created, fired]: the rules whose create()
                      \* was called and the number of listener calls
    vsteps,           \* history: the calls made so far, in order
    vproblems,        \* what _verifyWithoutProcessors returned
    vmessages,        \* what verify returned
    lastSuppressedMessages, \* slots.lastSuppressedMessages
    \* ---- token store: a cursor built by CursorFactory.createCursor ----
    cin,        \* the arguments of createCursor
    cur,        \* the fields of the cursor and of the cursors it decorates
    yielded,    \* history: `current` behind every moveNext() that returned true
    cpc,        \* "idle", "create", "iterate", "done" (moveNext() returned
                \* false), "revived" (it returned true after that)
    cret,       \* history: what getOneToken() and getAllTokens() of the forward
                \* cursor returned, and after how many moveNext() calls
    \* ---- SourceCode: the merged stream and the line table ----
    srcIn,      \* ast.tokens, ast.comments and the text handed to the constructor
    srcOut,     \* locals of sortedMerge; this.lines, this.lineStartIndices; the
                \* argument and the results of the location calls made
    srcPc,      \* "idle", "merge", "merged", "new", "ready", "loc", "index",
                \* "thrown", "done"
    \* ---- runRules and the try/catch of _verifyWithoutProcessors around it ----
    rin,        \* configuredRules: per rule id its severity and what
                \* ruleMapper(ruleId) gives
    rr,         \* locals of runRules: the position in configuredRules and in
                \* nodeQueue, the emitter's listeners, lintingProblems, the error
                \* in flight; history: the create() and listener calls made
    rpc,        \* "idle", "rules", "queue", "caught", "returning", "thrown",
                \* "returned"
    \* ---- Rules (slots.ruleMap) and getRule ----
    _rules,          \* Rules._rules: what define() stored for a rule id
    lastConfigArray, \* slots.lastConfigArray
    got,             \* what get() or getRule() returned, when it was the last call
    defines,         \* history: the define() calls made, in order
    gpc              \* "idle", "ready"

travVars == <<ast, root, _current, _parents, _skipped, _broken, stack, emitted, tpc>>

fixVars == <<text, shouldFix, currentText, passNumber, fixed, fixedResult, fpc,
             verifyCalls, lastVerify, applied, everApplied>>

verVars == <<vin, vpc, envInFile, commentDirectives, configuredRules, lintingProblems, ruleCalls,
             vsteps, vproblems, vmessages, lastSuppressedMessages>>

curVars == <<cin, cur, yielded, cpc, cret>>

srcVars == <<srcIn, srcOut, srcPc>>

runVars == <<rin, rr, rpc>>

regVars == <<_rules, lastConfigArray, got, defines, gpc>>

vars == <<travVars, fixVars, verVars, curVars, srcVars, runVars, regVars>>

(***************************************************************************)
(* Sequence helpers.                                                       *)
(***************************************************************************)
Last(s) == s[Len(s)]

Front(s) == SubSeq(s, 1, Len(s) - 1)

RECURSIVE Flatten(_)
Flatten(ss) == IF ss = <<>> THEN <<>> ELSE Head(ss) \o Flatten(Tail(ss))

Range(s) == {s[i] : i \in DOMAIN s}

(***************************************************************************)
(* AST values.  A node is [type, own, val]: `own` lists its own property   *)
(* names in property order, val[k] is the property: a single value or an   *)
(* array of values.  A value is a node id or "null" (null, undefined or    *)
(* any other non-node value).                                              *)
(***************************************************************************)
One(x) == [arr |-> FALSE, v |-> <<x>>]

Arr(xs) == [arr |-> TRUE, v |-> xs]

\* A program with an array child holding a hole, a two-key node whose
\* property order differs from the visitor-key order, and a node of a type
\* the visitor-key table does not know.
AstProgram ==
    [ n1 |-> [type |-> "Program", own |-> <<"body">>,
              val |-> [body |-> Arr(<<"n2", "null", "n3">>)]],
      n2 |-> [type |-> "Pair", own |-> <<"right", "left">>,
              val |-> [left |-> One("n4"), right |-> One("null")]],
      n3 |-> [type |-> "Custom", own |-> <<"b", "a">>,
              val |-> [a |-> Arr(<<>>), b |-> One("n5")]],
      n4 |-> [type |-> "Leaf", own |-> <<>>, val |-> <<>>],
      n5 |-> [type |-> "Pair", own |-> <<"left", "right">>,
              val |-> [left |-> One("null"), right |-> Arr(<<"null">>)]] ]

\* A chain three levels deep followed by a sibling.
AstChain ==
    [ n1 |-> [type |-> "Pair", own |-> <<"left", "right">>,
              val |-> [left |-> One("n2"), right |-> One("n5")]],
      n2 |-> [type |-> "Program", own |-> <<"body">>,
              val |-> [body |-> Arr(<<"n3">>)]],
      n3 |-> [type |-> "Pair", own |-> <<"left", "right">>,
              val |-> [left |-> One("n4"), right |-> One("null")]],
      n4 |-> [type |-> "Leaf", own |-> <<>>, val |-> <<>>],
      n5 |-> [type |-> "Leaf", own |-> <<>>, val |-> <<>>] ]

\* A single leaf.
AstLeaf == [ n1 |-> [type |-> "Leaf", own |-> <<>>, val |-> <<>>] ]

ASTs == {AstProgram, AstChain, AstLeaf}

\* What a callback does with the traverser's controls.
Ctl == {"none", "skip", "break", "skipbreak"}

(***************************************************************************)
(* Traverser helpers.                                                      *)
(***************************************************************************)
\* isNode(x): x !== null && typeof x === "object" && typeof x.type === "string"
isNode(tree, x) == x \in DOMAIN tree

\* The visitor-key table handed to traverse() (options.visitorKeys).
VisitorKeys ==
    [ Program |-> <<"body">>, Pair |-> <<"left", "right">>, Leaf |-> <<>> ]

\* eslint-visitor-keys getKeys(node): the node's own property names.
visitorGetKeys(node) == node.own

\* getVisitorKeys(visitorKeys, node)
KeysReversed(node) ==
    LET ks == IF node.type \in DOMAIN VisitorKeys
              THEN VisitorKeys[node.type] ELSE visitorGetKeys(node)
    IN  [i \in 1..Len(ks) |-> ks[Len(ks) + 1 - i]]

getVisitorKeys(node) ==
    IF node.type \in DOMAIN VisitorKeys
    THEN VisitorKeys[node.type]
    ELSE visitorGetKeys(node)

\* An activation record of _traverse(node, parent).  pc "call": at the top of
\* the body; "keys": in the loops over keys (i) and array items (j), both
\* counted from 0 as in the code; "leave": after the loops.
Frame(node, parent) == [node |-> node, parent |-> parent, pc |-> "call", i |-> 0, j |-> 0]

Top == Last(stack)

SetTop(f) == [stack EXCEPT ![Len(stack)] = f]

\* Traverser.skip() / Traverser.break() as called from a callback.
SkippedAfter(c, s) == IF c \in {"skip", "skipbreak"} THEN TRUE ELSE s

BrokenAfter(c, b) == IF c \in {"break", "skipbreak"} THEN TRUE ELSE b

(***************************************************************************)
(* Traverser actions.                                                      *)
(***************************************************************************)
\* new Traverser(), and the tree and root it will be given.
TraverserConstructed(trees, roots) ==
    /\ ast \in trees
    /\ root \in roots
    /\ _current = "null"
    /\ _parents = <<>>
    /\ _skipped = FALSE
    /\ _broken = FALSE
    /\ stack = <<>>
    /\ emitted = <<>>
    /\ tpc = "idle"

\* No verifyAndFix call is in progress.
FixIdle ==
    /\ text = <<>>
    /\ shouldFix = "true"
    /\ currentText = <<>>
    /\ passNumber = 0
    /\ fixed = FALSE
    /\ fixedResult = [fixed |-> FALSE, output |-> <<>>, messages |-> <<>>]
    /\ fpc = "idle"
    /\ verifyCalls = 0
    /\ lastVerify = [text |-> <<>>, messages |-> <<>>]
    /\ applied = <<>>
    /\ everApplied = FALSE

\* An object without keys.
EmptyObject == [name \in {} |-> 0]

\* config.rules of the calls that do not set it: both rules as errors.
BaseRules == [name \in {"r1", "r2"} |-> "error"]

\* Inline configuration allowed only when the option is given as true.
AllowedWhenTrue(allowInlineConfig) == allowInlineConfig = "true"

\* normalizeVerifyOptions: allowInlineConfig: !ignoreInlineConfig, with
\* ignoreInlineConfig = providedOptions.allowInlineConfig === false
AllowInlineConfig(allowInlineConfig) == allowInlineConfig # "false"

\* normalizeVerifyOptions: warnInlineConfig, as a truth value
\* (disableInlineConfig && !ignoreInlineConfig)
WarnInlineConfig(allowInlineConfig, noInlineConfig) ==
    noInlineConfig /\ allowInlineConfig # "false"

\* The input of a verify call: what the text holds and the options.
\* config.parser is "undefined" unless a call sets it: a parser object
\* ("object"), or a string that is a key of slots.parserMap ("registered")
\* or is none ("unregistered").
\* providedOptions.allowInlineConfig is "undefined", "true" or "false" and
\* config.noInlineConfig true or not; allowInlineConfig and warnInlineConfig
\* are the options normalizeVerifyOptions makes of them.  config.rules is
\* the caller's object, rulesGiven what the caller put into it; call counts
\* the verify calls made with this config object.
VerifyInput(parses, env, comments, reports, allowInlineConfig, noInlineConfig) ==
    [parses |-> parses, env |-> env, comments |-> comments, reports |-> reports,
     provided |-> allowInlineConfig, noInlineConfig |-> noInlineConfig,
     allowInlineConfig |-> AllowInlineConfig(allowInlineConfig),
     warnInlineConfig |-> WarnInlineConfig(allowInlineConfig, noInlineConfig),
     parser |-> "undefined", suppressedBefore |-> <<>>,
     rules |-> BaseRules, rulesGiven |-> BaseRules, call |-> 1]

NoDirectives ==
    [configuredRules |-> EmptyObject, enabledGlobals |-> EmptyObject, exportedVariables |-> {},
     problems |-> <<>>, disableDirectives |-> <<>>]

\* The locals of a verify call before its first step.
VerifyLocalsUnset ==
    /\ envInFile = {}
    /\ commentDirectives = NoDirectives
    /\ configuredRules = EmptyObject
    /\ lintingProblems = <<>>
    /\ ruleCalls = [created |-> {}, fired |-> 0]
    /\ vsteps = <<>>
    /\ vproblems = <<>>
    /\ vmessages = <<>>

VerifyLocals ==
    /\ VerifyLocalsUnset
    /\ lastSuppressedMessages = <<>>

\* No verify call is in progress.
VerifyIdle ==
    /\ vin = VerifyInput(TRUE, {}, <<>>, <<>>, "undefined", FALSE)
    /\ vpc = "idle"
    /\ VerifyLocals

\* null and undefined where a token is expected.
NullToken == [type |-> "null", kind |-> "null", range |-> <<-1, -1>>]

UndefinedToken == [type |-> "undefined", kind |-> "undefined", range |-> <<-1, -1>>]

\* The fields of a cursor nothing was asked of.
NoCursor == [index |-> 0, indexEnd |-> -1, filter |-> "none", skipCount |-> 0,
             limitCount |-> -1, current |-> NullToken]

\* Neither shorthand was called.
NoReturn == [oneAt |-> -1, one |-> NullToken, allAt |-> -1, all |-> <<>>]

\* No cursor is in use.
CursorIdle ==
    /\ cin = [tokens |-> <<>>, comments |-> <<>>, indexMap |-> "end", startLoc |-> 0,
              endLoc |-> 0, filter |-> "none", skip |-> 0, count |-> -1]
    /\ cur = NoCursor
    /\ yielded = <<>>
    /\ cpc = "idle"
    /\ cret = NoReturn

\* A value where a location call has nothing to give.
NoValue == [type |-> "none", line |-> 0, column |-> 0, index |-> 0]

\* The locals and fields before anything ran.
NoSourceCode ==
    [result |-> <<>>, tokenIndex |-> 0, commentIndex |-> 0,
     lines |-> <<>>, lineStartIndices |-> <<0>>,
     arg |-> NoValue, first |-> NoValue, second |-> NoValue]

\* No SourceCode is being constructed or asked.
SourceCodeIdle ==
    /\ srcIn = [tokens |-> <<>>, comments |-> <<>>, text |-> <<>>]
    /\ srcOut = NoSourceCode
    /\ srcPc = "idle"

\* No error is in flight.
NoError ==
    [kind |-> "none", by |-> "none", ruleId |-> "undefined", currentNode |-> 0,
     loading |-> "none", messageLine |-> 0, messageRule |-> "none"]

\* The locals of runRules before its first rule.
RunRulesLocals ==
    [ruleIndex |-> 0, queueIndex |-> 0, listeners |-> <<>>, lintingProblems |-> <<>>,
     calls |-> <<>>, generated |-> <<>>, err |-> NoError]

\* runRules is not running.
RunRulesIdle ==
    /\ rin = <<>>
    /\ rr = RunRulesLocals
    /\ rpc = "idle"

\* null where a rule is expected.
NullRule == [type |-> "null", origin |-> "none", serial |-> 0, create |-> FALSE]

\* No lookup was made since the last change.
NoLookup == [via |-> "none", id |-> "none", result |-> NullRule]

\* slots.lastConfigArray = null
NoConfigArray == [isNull |-> TRUE, hasPluginRules |-> FALSE, pluginRules |-> {}]

\* new Rules(): this._rules = Object.create(null)
RulesConstructed ==
    /\ _rules = [name \in {} |-> NullRule]
    /\ lastConfigArray = NoConfigArray
    /\ got = NoLookup
    /\ defines = <<>>

\* The registry is not in use.
RulesIdle ==
    /\ RulesConstructed
    /\ gpc = "idle"

InitTraverser ==
    /\ TraverserConstructed(ASTs, {"n1", "null"})
    /\ FixIdle /\ VerifyIdle /\ CursorIdle /\ SourceCodeIdle /\ RunRulesIdle /\ RulesIdle

\* traverse(node, options): reset the fields, then _traverse(node, null).
traverse ==
    /\ tpc = "idle"
    /\ _current' = "null"
    /\ _parents' = <<>>
    /\ _skipped' = FALSE
    /\ _broken' = FALSE
    /\ stack' = <<Frame(root, "null")>>
    /\ tpc' = "running"
    /\ UNCHANGED <<ast, root, emitted, fixVars, verVars, curVars, srcVars, runVars, regVars>>

\* _traverse, a call made with a value that is no node: return at once.
TraverseNonNode ==
    /\ tpc = "running" /\ stack # <<>>
    /\ Top.pc = "call"
    /\ ~isNode(ast, Top.node)
    /\ stack' = Front(stack)
    /\ UNCHANGED <<ast, root, _current, _parents, _skipped, _broken, emitted, tpc, fixVars, verVars, curVars, srcVars, runVars, regVars>>

\* The test before the loops: if (!this._skipped && !this._broken)
DescendIgnoringSkip(skipped, broken) == ~broken

DescendGuard(skipped, broken) == ~skipped /\ ~broken

\* The test before the leave callback: if (!this._broken)
LeaveGuardMissing == TRUE

LeaveGuard == ~_broken

\* Where _traverse goes after the enter callback returned.
AfterEnter(node, skipped, broken) ==
    IF DescendGuard(skipped, broken) /\ Len(getVisitorKeys(ast[node])) >= 1
    THEN "keys" ELSE "leave"

\* _traverse, from its top through the enter callback to the test before
\* the loops (and the push onto _parents when the node has keys).
TraverseEnter(c) ==
    /\ tpc = "running" /\ stack # <<>>
    /\ Top.pc = "call"
    /\ isNode(ast, Top.node)
    /\ _current' = Top.node
    /\ _skipped' = SkippedAfter(c, FALSE)
    /\ _broken' = BrokenAfter(c, _broken)
    /\ emitted' = Append(emitted, [kind |-> "enter", node |-> Top.node,
                                   parent |-> Top.parent, ctl |-> c])
    /\ LET to == AfterEnter(Top.node, _skipped', _broken')
       IN  /\ stack' = SetTop([Top EXCEPT !.pc = to])
           /\ _parents' = IF to = "keys" THEN Append(_parents, Top.node) ELSE _parents
    /\ UNCHANGED <<ast, root, tpc, fixVars, verVars, curVars, srcVars, runVars, regVars>>

\* _traverse, one turn of the loops: the child under key i (item j when it
\* is an array) is traversed, or the loops end and _parents is popped.
TraverseChildren ==
    /\ tpc = "running" /\ stack # <<>>
    /\ Top.pc = "keys"
    /\ LET node  == ast[Top.node]
           keys  == getVisitorKeys(node)
       IN  IF Top.i < Len(keys) /\ ~_broken
           THEN LET child == node.val[keys[Top.i + 1]]
                IN  IF child.arr
                    THEN IF Top.j < Len(child.v) /\ ~_broken
                         THEN /\ stack' = Append(SetTop([Top EXCEPT !.j = Top.j + 1]),
                                                 Frame(child.v[Top.j + 1], Top.node))
                              /\ UNCHANGED _parents
                         ELSE /\ stack' = SetTop([Top EXCEPT !.i = Top.i + 1, !.j = 0])
                              /\ UNCHANGED _parents
                    ELSE /\ stack' = Append(SetTop([Top EXCEPT !.i = Top.i + 1]),
                                            Frame(child.v[1], Top.node))
                         /\ UNCHANGED _parents
           ELSE /\ stack' = SetTop([Top EXCEPT !.pc = "leave"])
                /\ _parents' = Front(_parents)
    /\ UNCHANGED <<ast, root, _current, _skipped, _broken, emitted, tpc, fixVars, verVars, curVars, srcVars, runVars, regVars>>

\* _traverse, its end: the leave callback unless the walk is broken, then
\* _current = parent and the return.
TraverseLeave(c) ==
    /\ tpc = "running" /\ stack # <<>>
    /\ Top.pc = "leave"
    /\ IF LeaveGuard
       THEN /\ emitted' = Append(emitted, [kind |-> "leave", node |-> Top.node,
                                           parent |-> Top.parent, ctl |-> c])
            /\ _skipped' = SkippedAfter(c, _skipped)
            /\ _broken' = BrokenAfter(c, _broken)
       ELSE /\ c = "none"
            /\ UNCHANGED <<emitted, _skipped, _broken>>
    /\ _current' = Top.parent
    /\ stack' = Front(stack)
    /\ UNCHANGED <<ast, root, _parents, tpc, fixVars, verVars, curVars, srcVars, runVars, regVars>>

\* traverse() returns once the outermost _traverse has returned.
TraverseReturn ==
    /\ tpc = "running" /\ stack = <<>>
    /\ tpc' = "done"
    /\ UNCHANGED <<ast, root, _current, _parents, _skipped, _broken, stack, emitted, fixVars, verVars, curVars, srcVars, runVars, regVars>>

NextTraverse ==
    \/ traverse
    \/ TraverseNonNode
    \/ \E c \in Ctl : TraverseEnter(c)
    \/ TraverseChildren
    \/ \E c \in Ctl : TraverseLeave(c)
    \/ TraverseReturn

SpecTraverse == InitTraverser /\ [][NextTraverse]_vars

\* The scheduling of a synchronous call: the walk keeps running until it
\* returns.
SpecTraverseFair == SpecTraverse /\ WF_vars(NextTraverse)

(***************************************************************************)
(* Texts, problems and fixes.  A text is a sequence of characters; offsets *)
(* are 0-based and a range <<s, e>> denotes text.slice(s, e).              *)
(***************************************************************************)
MaxLen == 1

Chars == {"a", "b"}

TextsUpTo(n) == UNION {[1..k -> Chars] : k \in 0..n}

Replacements == {<<>>, <<"a">>, <<"b">>}

RuleIds == {"r1", "r2"}

NoFix == [range |-> <<0, 0>>, text |-> <<>>]

\* A problem as verify returns it; hasFix says whether it carries `fix`.
Problem(ruleId, hasFix, fix) ==
    [ruleId |-> ruleId, fatal |-> FALSE, severity |-> 2, hasFix |-> hasFix, fix |-> fix]

\* The problem parse() returns for a text the parser rejects.
FatalProblem ==
    [ruleId |-> "null", fatal |-> TRUE, severity |-> 2, hasFix |-> FALSE, fix |-> NoFix]

\* The fixes a rule can report on text t: any range of t, any replacement.
FixesOn(t) ==
    {[range |-> p, text |-> r] :
        p \in {q \in (0..Len(t)) \X (0..Len(t)) : q[1] <= q[2]},
        r \in Replacements}

\* What one rule contributes to a lint of t: nothing, or one problem with
\* or without a fix.
ReportsOf(ruleId, fixes) ==
    {<<>>, <<Problem(ruleId, FALSE, NoFix)>>} \cup
    {<<Problem(ruleId, TRUE, f)>> : f \in fixes}

\* The results this.verify(t, config, options) can have: the single fatal
\* problem of a parse failure, or the problems of the rules.  Rule r1 may fix
\* anything; rule r2 may rewrite the whole text to nothing.
VerifyOutcomes(t) ==
    {<<FatalProblem>>} \cup
    {a \o b : a \in ReportsOf("r1", FixesOn(t)),
              b \in ReportsOf("r2", {[range |-> <<0, Len(t)>>, text |-> <<>>]})}

\* options.fix: true (also when it is left out), false, or a predicate over
\* problems; the predicate of the model rejects the problems of rule r2.
FixOptions == {"true", "false", "predicate"}

(***************************************************************************)
(* SourceCodeFixer.applyFixes(sourceText, messages, shouldFix).            *)
(***************************************************************************)
ShouldFixProblem(opt, problem) ==
    CASE opt = "true" -> TRUE
      [] opt = "false" -> FALSE
      [] opt = "predicate" -> problem.ruleId # "r2"

\* The order of candidate fixes: (range.start ascending, range.end ascending).
FixBefore(f, g) ==
    \/ f.range[1] < g.range[1]
    \/ f.range[1] = g.range[1] /\ f.range[2] < g.range[2]

\* Stable insertion of the message index k into the sorted indices.
RECURSIVE InsertFix(_, _, _)
InsertFix(sorted, k, msgs) ==
    IF sorted = <<>> THEN <<k>>
    ELSE IF FixBefore(msgs[k].fix, msgs[Head(sorted)].fix) THEN <<k>> \o sorted
    ELSE <<Head(sorted)>> \o InsertFix(Tail(sorted), k, msgs)

RECURSIVE SortFixes(_, _)
SortFixes(cands, msgs) ==
    IF cands = <<>> THEN <<>>
    ELSE InsertFix(SortFixes(Front(cands), msgs), Last(cands), msgs)

\* A fix is accepted when it starts at or behind the end of the last
\* accepted one.
AcceptsOverlapping(f, lastEnd) == TRUE

Accepts(f, lastEnd) == f.range[1] >= lastEnd

RECURSIVE AcceptFixes(_, _, _)
AcceptFixes(sorted, msgs, lastEnd) ==
    IF sorted = <<>> THEN <<>>
    ELSE LET f == msgs[Head(sorted)].fix
         IN  IF Accepts(f, lastEnd)
             THEN <<Head(sorted)>> \o AcceptFixes(Tail(sorted), msgs, f.range[2])
             ELSE AcceptFixes(Tail(sorted), msgs, lastEnd)

\* The accepted fixes spliced into the text in ascending order, from
\* offset pos on.
RECURSIVE SpliceAscending(_, _, _, _)
SpliceAscending(t, accepted, msgs, pos) ==
    IF accepted = <<>> THEN SubSeq(t, pos + 1, Len(t))
    ELSE LET f == msgs[Head(accepted)].fix
         IN  SubSeq(t, pos + 1, f.range[1]) \o f.text
                \o SpliceAscending(t, Tail(accepted), msgs, IF f.range[2] > pos THEN f.range[2] ELSE pos)

\* The result of applyFixes, with the indices of the accepted problems.
ApplyFixes(sourceText, msgs, opt) ==
    LET cands    == SelectSeq([k \in 1..Len(msgs) |-> k],
                        LAMBDA k : msgs[k].hasFix /\ ShouldFixProblem(opt, msgs[k]))
        accepted == AcceptFixes(SortFixes(cands, msgs), msgs, -1)
        rest     == SelectSeq([k \in 1..Len(msgs) |-> k],
                        LAMBDA k : k \notin Range(accepted))
    IN  [fixed    |-> accepted # <<>>,
         output   |-> SpliceAscending(sourceText, accepted, msgs, 0),
         messages |-> [k \in 1..Len(rest) |-> msgs[rest[k]]],
         accepted |-> [k \in 1..Len(accepted) |-> msgs[accepted[k]]]]

(***************************************************************************)
(* Linter.verifyAndFix.                                                    *)
(***************************************************************************)
MAX_AUTOFIX_PASSES == 10

\* The locals of verifyAndFix as it reaches the loop.
VerifyAndFixCalled(texts, options) ==
    /\ text \in texts
    /\ shouldFix \in options
    /\ currentText = text
    /\ passNumber = 0
    /\ fixed = FALSE
    /\ fixedResult = [fixed |-> FALSE, output |-> <<>>, messages |-> <<>>]
    /\ fpc = "loop"
    /\ verifyCalls = 0
    /\ lastVerify = [text |-> <<>>, messages |-> <<>>]
    /\ applied = <<>>
    /\ everApplied = FALSE

Init == VerifyAndFixCalled(TextsUpTo(MaxLen), FixOptions)
            /\ TraverserConstructed({AstLeaf}, {"null"})
            /\ VerifyIdle
            /\ CursorIdle
            /\ SourceCodeIdle
            /\ RunRulesIdle
            /\ RulesIdle

\* if (messages.length === 1 && messages[0].fatal) break;
IsFatalResult(msgs) == Len(msgs) = 1 /\ msgs[1].fatal

\* fixed = fixed || fixedResult.fixed
FixedOfLastPassOnly(was, now) == now

FixedAfterPass(was, now) == was \/ now

\* while (fixedResult.fixed && passNumber < MAX_AUTOFIX_PASSES)
LoopAgainOffByOne(resultFixed, pass) == resultFixed /\ pass <= MAX_AUTOFIX_PASSES

LoopAgain(resultFixed, pass) == resultFixed /\ pass < MAX_AUTOFIX_PASSES

\* if (fixedResult.fixed), behind the loop
FinalVerifyNever == FALSE

FinalVerifyGuard == fixedResult.fixed

\* fixedResult.output = currentText
FinalOutputOfInput == text

FinalOutput == currentText

\* One turn of the do body, with the loop test behind it: lint, apply the
\* fixes, stop on a fatal parse error, else take over the fixed text.
LintPass(msgs) ==
    /\ fpc = "loop"
    /\ LET r == ApplyFixes(currentText, msgs, shouldFix)
       IN  /\ Len(r.output) <= MaxLen
           /\ passNumber' = passNumber + 1
           /\ verifyCalls' = verifyCalls + 1
           /\ lastVerify' = [text |-> currentText, messages |-> msgs]
           /\ applied' = r.accepted
           /\ everApplied' = (everApplied \/ r.accepted # <<>>)
           /\ fixedResult' = [fixed |-> r.fixed, output |-> r.output, messages |-> r.messages]
           /\ IF IsFatalResult(msgs)
              THEN /\ fpc' = "after"
                   /\ UNCHANGED <<fixed, currentText>>
              ELSE /\ fixed' = FixedAfterPass(fixed, r.fixed)
                   /\ currentText' = r.output
                   /\ fpc' = IF LoopAgain(r.fixed, passNumber') THEN "loop" ELSE "after"
    /\ UNCHANGED <<text, shouldFix, travVars, verVars, curVars, srcVars, runVars, regVars>>

\* Behind the loop when the last result had fixes: lint once more, then
\* set fixed and output and return.
FinalVerify(msgs) ==
    /\ fpc = "after"
    /\ FinalVerifyGuard
    /\ verifyCalls' = verifyCalls + 1
    /\ lastVerify' = [text |-> currentText, messages |-> msgs]
    /\ fixedResult' = [fixed |-> fixed, output |-> FinalOutput, messages |-> msgs]
    /\ fpc' = "done"
    /\ UNCHANGED <<text, shouldFix, currentText, passNumber, fixed, applied,
                   everApplied, travVars, verVars, curVars, srcVars, runVars, regVars>>

\* Behind the loop when the last result had no fixes: set fixed and output
\* and return.
ReturnResult ==
    /\ fpc = "after"
    /\ ~FinalVerifyGuard
    /\ fixedResult' = [fixedResult EXCEPT !.fixed = fixed, !.output = FinalOutput]
    /\ fpc' = "done"
    /\ UNCHANGED <<text, shouldFix, currentText, passNumber, fixed,
                   verifyCalls, lastVerify, applied, everApplied, travVars, verVars, curVars, srcVars, runVars, regVars>>

Next ==
    \/ \E msgs \in VerifyOutcomes(currentText) : LintPass(msgs)
    \/ \E msgs \in VerifyOutcomes(currentText) : FinalVerify(msgs)
    \/ ReturnResult

Spec == Init /\ [][Next]_vars

(***************************************************************************)
(* SourceCodeFixer.applyFixes on its own: one call on a text of distinct   *)
(* characters and the problems of three rules, each with or without a fix  *)
(* (any range of the text with start <= end, replaced by nothing or by     *)
(* "x").  Ranges with start > end, negative offsets and a byte order mark  *)
(* are left out.                                                           *)
(***************************************************************************)
FixerLen == 3

Alphabet == <<"a", "b", "c", "d", "e">>

FixerText == SubSeq(Alphabet, 1, FixerLen)

FixerRules == <<"r1", "r2", "r3">>

FixerFixes ==
    {[range |-> p, text |-> r] :
        p \in {q \in (0..FixerLen) \X (0..FixerLen) : q[1] <= q[2]},
        r \in {<<>>, <<"x">>}}

\* One problem per rule, in the order of the rules.
FixerMessages ==
    {[k \in DOMAIN FixerRules |-> ps[k]] :
        ps \in [DOMAIN FixerRules -> {<<FALSE, NoFix>>} \cup ({TRUE} \X FixerFixes)]}

FixerProblems(ps) == [k \in DOMAIN ps |-> Problem(FixerRules[k], ps[k][1], ps[k][2])]

InitFixer ==
    /\ text = FixerText
    /\ shouldFix \in FixOptions
    /\ currentText = text
    /\ passNumber = 0
    /\ fixed = FALSE
    /\ fixedResult = [fixed |-> FALSE, output |-> <<>>, messages |-> <<>>]
    /\ fpc = "apply"
    /\ verifyCalls = 0
    /\ \E ps \in FixerMessages :
            lastVerify = [text |-> text, messages |-> FixerProblems(ps)]
    /\ applied = <<>>
    /\ everApplied = FALSE
    /\ TraverserConstructed({AstLeaf}, {"null"})
    /\ VerifyIdle
    /\ CursorIdle
    /\ SourceCodeIdle
    /\ RunRulesIdle
    /\ RulesIdle

\* fixedResult = SourceCodeFixer.applyFixes(currentText, messages, shouldFix)
ApplyFixesCall ==
    /\ fpc = "apply"
    /\ LET r == ApplyFixes(currentText, lastVerify.messages, shouldFix)
       IN  /\ fixedResult' = [fixed |-> r.fixed, output |-> r.output, messages |-> r.messages]
           /\ applied' = r.accepted
           /\ everApplied' = (r.accepted # <<>>)
    /\ fpc' = "applied"
    /\ UNCHANGED <<text, shouldFix, currentText, passNumber, fixed,
                   verifyCalls, lastVerify, travVars, verVars, curVars, srcVars, runVars, regVars>>

NextFixer == ApplyFixesCall

SpecFixer == InitFixer /\ [][NextFixer]_vars

(***************************************************************************)
(* Linter.verify on a text with the default parser and no processor:       *)
(* _verifyWithoutProcessors, then _distinguishSuppressedMessages.  The     *)
(* text is given by what it holds: whether the parser accepts it, the      *)
(* environments of its eslint-env comments, its directive comments in      *)
(* source order; the rules r1 and r2 are configured with severity 2.       *)
(***************************************************************************)
DefinedRules == {"r1", "r2"}

\* (ruleId) => getRule(slots, ruleId), as a truth value
ruleMapper(ruleId) == ruleId \in DefinedRules

\* A directive comment: Block or Line, the directive behind "eslint-", its
\* rule list, and its loc (columns from 0).
Comment(kind, directive, rules, startLine, endLine, column, endColumn) ==
    [kind |-> kind, directive |-> directive, rules |-> rules, config |-> <<>>, json |-> TRUE,
     startLine |-> startLine, endLine |-> endLine, column |-> column, endColumn |-> endColumn]

\* An entry of the value of an eslint, globals or exported comment: a name
\* and its value, and whether the value is accepted (by
\* validator.validateRuleOptions for a rule, by
\* ConfigOps.normalizeConfigGlobal for a global).
Entry(name, value, valid) == [name |-> name, value |-> value, valid |-> valid]

\* A block comment on one line carrying eslint, globals or exported; json
\* tells whether commentParser.parseJsonConfig accepts the value.
InlineComment(directive, config, json, line, column) ==
    [Comment("Block", directive, <<>>, line, line, column, column + 30)
        EXCEPT !.config = config, !.json = json]

\* A problem of verify; suppressions = <<>> stands for no `suppressions`.
LintProblem(ruleId, fatal, severity, line, column) ==
    [ruleId |-> ruleId, fatal |-> fatal, severity |-> severity,
     line |-> line, column |-> column, suppressions |-> <<>>]

createLintingProblem(ruleId, comment, severity) ==
    LintProblem(ruleId, FALSE, severity, comment.startLine, comment.column + 1)

ParserConfigs == {"undefined", "object", "registered", "unregistered"}

\* Every parser name taken as registered.
ParserAlwaysFound(parser) == FALSE

\* typeof config.parser === "string" && !slots.parserMap.has(config.parser)
ParserMissing(parser) == parser = "unregistered"

\* The problem returned for a parser that was not found.
ParserNotFound == LintProblem("null", TRUE, 2, 0, 0)

\* parse(): the error of a text the parser rejects
ParseError == LintProblem("null", TRUE, 2, 1, 1)

Directive(type, line, column, ruleId) ==
    [type |-> type, line |-> line, column |-> column, ruleId |-> ruleId]

\* The listed rule ids taken as they are.
DirectiveRulesAsListed(ruleIds) == ruleIds

\* const directiveRules = ruleIds.length ? ruleIds : [null]
DirectiveRules(ruleIds) == IF ruleIds # <<>> THEN ruleIds ELSE <<"null">>

createDisableDirectives(type, commentToken, ruleIds) ==
    LET directiveRules == DirectiveRules(ruleIds)
        known   == SelectSeq(directiveRules, LAMBDA r : r = "null" \/ ruleMapper(r))
        unknown == SelectSeq(directiveRules, LAMBDA r : ~(r = "null" \/ ruleMapper(r)))
    IN  [disableDirectives |->
            [k \in DOMAIN known |->
                IF type = "disable-next-line"
                THEN Directive(type, commentToken.endLine, commentToken.endColumn + 1, known[k])
                ELSE Directive(type, commentToken.startLine, commentToken.column + 1, known[k])],
         problems |->
            [k \in DOMAIN unknown |-> createLintingProblem(unknown[k], commentToken, 2)]]

\* case "eslint": the entries of the parsed value in turn
RECURSIVE RulesOfComment(_, _)
RulesOfComment(entries, comment) ==
    IF entries = <<>> THEN NoDirectives
    ELSE LET e    == Head(entries)
             rest == RulesOfComment(Tail(entries), comment)
         IN  IF ~ruleMapper(e.name) \/ ~e.valid
             THEN [rest EXCEPT !.problems = <<createLintingProblem(e.name, comment, 2)>> \o @]
             ELSE [rest EXCEPT !.configuredRules = @ @@ (e.name :> e.value)]

\* case "globals": the entries of the parsed value in turn
RECURSIVE GlobalsOfComment(_, _)
GlobalsOfComment(entries, comment) ==
    IF entries = <<>> THEN NoDirectives
    ELSE LET e    == Head(entries)
             rest == GlobalsOfComment(Tail(entries), comment)
         IN  IF ~e.valid
             THEN [rest EXCEPT !.problems = <<createLintingProblem("null", comment, 2)>> \o @]
             ELSE [rest EXCEPT !.enabledGlobals = @ @@ (e.name :> e.value)]

\* problems.push(parseResult.error), for a value parseJsonConfig rejects
JsonConfigError(comment) == createLintingProblem("null", comment, 2)

\* What the forEach body of getDirectiveComments adds for one comment.
DirectivesOfComment(comment, warnInlineConfig) ==
    IF comment.kind = "Line" /\ comment.directive \notin {"disable-line", "disable-next-line"}
    THEN NoDirectives
    ELSE IF warnInlineConfig
    THEN [NoDirectives EXCEPT !.problems = <<createLintingProblem("null", comment, 1)>>]
    ELSE IF comment.directive = "disable-line" /\ comment.startLine # comment.endLine
    THEN [NoDirectives EXCEPT !.problems = <<createLintingProblem("null", comment, 2)>>]
    ELSE CASE comment.directive = "exported" ->
                [NoDirectives EXCEPT !.exportedVariables = {e.name : e \in Range(comment.config)}]
           [] comment.directive = "globals" ->
                GlobalsOfComment(comment.config, comment)
           [] comment.directive = "eslint" ->
                IF comment.json THEN RulesOfComment(comment.config, comment)
                ELSE [NoDirectives EXCEPT !.problems = <<JsonConfigError(comment)>>]
           [] OTHER ->
                LET created == createDisableDirectives(comment.directive, comment, comment.rules)
                IN  [NoDirectives EXCEPT !.problems = created.problems,
                                         !.disableDirectives = created.disableDirectives]

\* The comments in turn: a later assignment to a rule or a global replaces
\* an earlier one.
RECURSIVE getDirectiveComments(_, _)
getDirectiveComments(comments, warnInlineConfig) ==
    IF comments = <<>> THEN NoDirectives
    ELSE LET first == DirectivesOfComment(Head(comments), warnInlineConfig)
             rest  == getDirectiveComments(Tail(comments), warnInlineConfig)
         IN  [configuredRules |-> rest.configuredRules @@ first.configuredRules,
              enabledGlobals |-> rest.enabledGlobals @@ first.enabledGlobals,
              exportedVariables |-> first.exportedVariables \cup rest.exportedVariables,
              problems |-> first.problems \o rest.problems,
              disableDirectives |-> first.disableDirectives \o rest.disableDirectives]

\* A comparator that also puts a problem before one at its own position.
ProblemBeforeOrAt(a, b) == a.line < b.line \/ (a.line = b.line /\ a.column <= b.column)

\* The comparator of the sort: line, then column.
ProblemBefore(a, b) == a.line < b.line \/ (a.line = b.line /\ a.column < b.column)

RECURSIVE InsertProblem(_, _)
InsertProblem(sorted, x) ==
    IF sorted = <<>> THEN <<x>>
    ELSE IF ProblemBefore(x, Last(sorted)) THEN Append(InsertProblem(Front(sorted), x), Last(sorted))
    ELSE Append(sorted, x)

RECURSIVE StableSort(_)
StableSort(ps) == IF ps = <<>> THEN <<>> ELSE InsertProblem(StableSort(Front(ps)), Last(ps))

\* lintingProblems.concat(commentDirectives.problems).sort(...)
ProblemsUnsorted(linting, fromDirectives) == linting \o fromDirectives

ProblemsHanded(linting, fromDirectives) == StableSort(linting \o fromDirectives)

(***************************************************************************)
(* applyDisableDirectives({directives, problems, ...}) with                *)
(* reportUnusedDisableDirectives off: the directives are walked in source  *)
(* order along the sorted problems, keeping a wildcard state and a state   *)
(* per rule.                                                               *)
(***************************************************************************)
\* The directive lies at or before the position of the problem.
DirectiveReached(d, p) == d.line < p.line \/ (d.line = p.line /\ d.column <= p.column)

NothingDisabled == [wild |-> FALSE, disabled |-> {}, enabled |-> {}]

\* The enable state behind one more disable or enable directive.
AfterDirective(st, d) ==
    CASE d.type = "disable" /\ d.ruleId = "null" ->
            [wild |-> TRUE, disabled |-> {}, enabled |-> {}]
      [] d.type = "disable" /\ d.ruleId # "null" ->
            [st EXCEPT !.disabled = @ \cup {d.ruleId}, !.enabled = @ \ {d.ruleId}]
      [] d.type = "enable" /\ d.ruleId = "null" ->
            NothingDisabled
      [] d.type = "enable" /\ d.ruleId # "null" ->
            [st EXCEPT !.disabled = @ \ {d.ruleId},
                       !.enabled = IF st.wild THEN @ \cup {d.ruleId} ELSE @]

DisabledIn(st, ruleId) == ruleId \in st.disabled \/ (st.wild /\ ruleId \notin st.enabled)

\* One walk: for every problem in turn, whether a disable region holds it.
RECURSIVE WalkRegions(_, _, _)
WalkRegions(problems, regionDirectives, st) ==
    IF problems = <<>> THEN <<>>
    ELSE IF regionDirectives # <<>> /\ DirectiveReached(Head(regionDirectives), Head(problems))
    THEN WalkRegions(problems, Tail(regionDirectives), AfterDirective(st, Head(regionDirectives)))
    ELSE <<DisabledIn(st, Head(problems).ruleId)>> \o WalkRegions(Tail(problems), regionDirectives, st)

\* A disable-line or disable-next-line directive suppresses the problem.
LineDisabled(directives, p) ==
    \E k \in DOMAIN directives :
        LET d == directives[k]
        IN  /\ d.ruleId = "null" \/ d.ruleId = p.ruleId
            /\ \/ d.type = "disable-line" /\ p.line = d.line
               \/ d.type = "disable-next-line" /\ p.line = d.line + 1

applyDisableDirectives(directives, problems) ==
    LET regions == WalkRegions(problems,
                       SelectSeq(directives, LAMBDA d : d.type \in {"disable", "enable"}),
                       NothingDisabled)
    IN  [k \in DOMAIN problems |->
            IF regions[k] \/ LineDisabled(directives, problems[k])
            THEN [problems[k] EXCEPT !.suppressions = <<[kind |-> "directive"]>>]
            ELSE problems[k]]

(***************************************************************************)
(* The calls of the model.                                                 *)
(***************************************************************************)
\* Directive comments at column 0 or 40 of line 1 or 2; one on a single line
\* ends at column 30 past its start, one on two lines at column 10.
RegionComments ==
    {Comment("Block", d, r, l, l, c, c + 30) :
        d \in {"disable", "enable"}, r \in {<<>>, <<"r1">>}, l \in {1, 2}, c \in {0, 40}}

BlockLineComments ==
    {Comment("Block", d, r, l, l + m, 40, IF m = 0 THEN 70 ELSE 10) :
        d \in {"disable-line", "disable-next-line"}, r \in {<<>>, <<"r1">>},
        l \in {1, 2}, m \in {0, 1}}

LineComments ==
    {Comment("Line", d, r, l, l, 40, 70) :
        d \in {"disable-line", "disable-next-line"}, r \in {<<>>, <<"r1">>}, l \in {1, 2}}
    \cup {Comment("Line", "disable", <<>>, 1, 1, 0, 30)}

UndefinedRuleComments ==
    {Comment("Block", "disable", <<"u", "r1">>, 1, 1, 0, 30),
     Comment("Block", "disable-line", <<"u">>, 2, 2, 40, 70),
     Comment("Block", "disable-line", <<"u">>, 3, 3, 20, 50)}

Comments == RegionComments \cup BlockLineComments \cup LineComments \cup UndefinedRuleComments

\* Comment a ends before comment b starts.
CommentBefore(a, b) ==
    a.endLine < b.startLine \/ (a.endLine = b.startLine /\ a.endColumn < b.column)

CommentLists ==
    {<<>>} \cup {<<a>> : a \in Comments}
           \cup {p \in Comments \X Comments : CommentBefore(p[1], p[2])}

\* What the listeners of the rules can report: problems at column 21 of the
\* lines 1 to 3 and at column 61 of the lines 1 and 2 (columns from 1).
Reportable ==
    {LintProblem(r, FALSE, 2, l, 21) : r \in DefinedRules, l \in {1, 2, 3}}
    \cup {LintProblem("r1", FALSE, 2, l, 61) : l \in {1, 2}}

ReportLists == {<<>>} \cup {<<a>> : a \in Reportable} \cup (Reportable \X Reportable)

\* Comments carrying configuration: a rule switched off, lowered to a
\* warning or raised to an error, options the validator rejects, an
\* undefined rule beside a defined one, a value that is no JSON, globals
\* with an accepted and a rejected value, exported variables.
InlineComments ==
    {InlineComment("eslint", <<Entry("r1", v, TRUE)>>, TRUE, 1, 0) : v \in {"off", "warn", "error"}}
    \cup {InlineComment("eslint", <<Entry("r1", "off", FALSE)>>, TRUE, 1, 0),
          InlineComment("eslint", <<Entry("u", "error", TRUE), Entry("r2", "warn", TRUE)>>, TRUE, 1, 0),
          InlineComment("eslint", <<>>, FALSE, 1, 0),
          InlineComment("eslint", <<Entry("r1", "warn", TRUE)>>, TRUE, 2, 0),
          InlineComment("globals", <<Entry("g", "writable", TRUE), Entry("h", "x", FALSE)>>, TRUE, 1, 0),
          InlineComment("exported", <<Entry("v", "true", TRUE)>>, TRUE, 1, 0),
          [InlineComment("eslint", <<Entry("r1", "off", TRUE)>>, TRUE, 1, 0) EXCEPT !.kind = "Line"]}

InlineCommentLists ==
    {<<a>> : a \in InlineComments}
    \cup {p \in InlineComments \X InlineComments :
                CommentBefore(p[1], p[2]) /\ p[1].directive = "eslint"}
    \cup {<<a, Comment("Block", "disable-line", <<"r2">>, 2, 2, 40, 70)>> :
                a \in {c \in InlineComments : c.startLine = 1 /\ c.directive = "eslint"}}

\* config.rules of the caller: both rules on, r1 off, or r1 not mentioned.
RuleConfigsGiven ==
    {BaseRules, [name \in {"r1", "r2"} |-> IF name = "r1" THEN "off" ELSE "error"],
     [name \in {"r2"} |-> "error"]}

\* providedOptions.allowInlineConfig and config.noInlineConfig
InlineOptions ==
    {<<"undefined", FALSE>>, <<"true", TRUE>>, <<"false", FALSE>>, <<"false", TRUE>>}

\* A problem an earlier verify call of this linter suppressed.
SuppressedEarlier ==
    [LintProblem("r2", FALSE, 2, 3, 61) EXCEPT !.suppressions = <<[kind |-> "directive"]>>]

\* slots.lastSuppressedMessages at the call: [] of the constructor, or what
\* an earlier call (a pass of verifyAndFix, say) has stored.
SuppressedBefore == {<<>>, <<SuppressedEarlier>>}

\* The calls: the default options on a text with up to two directive
\* comments; any options on a text with up to one directive comment, with
\* or without an eslint-env comment, which the parser accepts or rejects,
\* on a linter that may hold suppressed messages of an earlier call; any
\* options and any of the rule configurations on a text with comments that
\* carry configuration.
VerifyInputs ==
    {VerifyInput(TRUE, {}, cs, <<>>, "undefined", FALSE) : cs \in CommentLists}
    \cup {[VerifyInput(ok, env, cs, <<>>, o[1], o[2])
                EXCEPT !.parser = p, !.suppressedBefore = before] :
            ok \in BOOLEAN, env \in {{}, {"e1"}},
            cs \in {c \in CommentLists : Len(c) <= 1},
            o \in InlineOptions,
            p \in ParserConfigs,
            before \in SuppressedBefore}
    \cup {[VerifyInput(TRUE, {}, cs, <<>>, o[1], o[2]) EXCEPT !.rules = given, !.rulesGiven = given] :
            cs \in InlineCommentLists, o \in InlineOptions, given \in RuleConfigsGiven}

InitVerify ==
    /\ vin \in VerifyInputs
    /\ vpc = "parser"
    /\ VerifyLocalsUnset
    /\ lastSuppressedMessages = vin.suppressedBefore
    /\ TraverserConstructed({AstLeaf}, {"null"})
    /\ FixIdle
    /\ CursorIdle
    /\ SourceCodeIdle
    /\ RunRulesIdle
    /\ RulesIdle

\* Resolve parser: a parser named by a string that slots.parserMap does not
\* hold ends the call with one problem.
ResolveParser ==
    /\ vpc = "parser"
    /\ IF ParserMissing(vin.parser)
       THEN vproblems' = <<ParserNotFound>> /\ vpc' = "returned"
       ELSE vproblems' = vproblems /\ vpc' = "env"
    /\ UNCHANGED <<vin, envInFile, commentDirectives, configuredRules, lintingProblems, ruleCalls, vsteps,
                   vmessages, lastSuppressedMessages, travVars, fixVars, curVars, srcVars, runVars, regVars>>

\* const envInFile = options.allowInlineConfig && !options.warnInlineConfig
\*     ? findEslintEnv(text) : {}
FindEslintEnv ==
    /\ vpc = "env"
    /\ IF vin.allowInlineConfig /\ ~vin.warnInlineConfig
       THEN envInFile' = vin.env /\ vsteps' = Append(vsteps, "findEslintEnv")
       ELSE envInFile' = {} /\ vsteps' = vsteps
    /\ vpc' = "parse"
    /\ UNCHANGED <<vin, commentDirectives, configuredRules, lintingProblems, ruleCalls, vproblems,
                   vmessages, lastSuppressedMessages, travVars, fixVars, curVars, srcVars, runVars, regVars>>

\* if (!parseResult.success) return [parseResult.error];
ParseFailureIgnored(success) == "directives"

AfterParse(success) == IF success THEN "directives" ELSE "returned"

Parse ==
    /\ vpc = "parse"
    /\ vsteps' = Append(vsteps, "parse")
    /\ vproblems' = IF vin.parses THEN vproblems ELSE <<ParseError>>
    /\ vpc' = AfterParse(vin.parses)
    /\ UNCHANGED <<vin, envInFile, commentDirectives, configuredRules, lintingProblems, ruleCalls,
                   vmessages, lastSuppressedMessages, travVars, fixVars, curVars, srcVars, runVars, regVars>>

GetDirectiveComments ==
    /\ vpc = "directives"
    /\ IF vin.allowInlineConfig
       THEN /\ commentDirectives' = getDirectiveComments(vin.comments, vin.warnInlineConfig)
            /\ vsteps' = Append(vsteps, "getDirectiveComments")
       ELSE /\ commentDirectives' = NoDirectives
            /\ vsteps' = vsteps
    /\ vpc' = "rules"
    /\ UNCHANGED <<vin, envInFile, configuredRules, lintingProblems, ruleCalls, vproblems,
                   vmessages, lastSuppressedMessages, travVars, fixVars, curVars, srcVars, runVars, regVars>>

\* ConfigOps.getRuleSeverity
getRuleSeverity(ruleConfig) ==
    CASE ruleConfig = "off" -> 0
      [] ruleConfig = "warn" -> 1
      [] ruleConfig = "error" -> 2

\* The inline values written into the caller's object.
RulesTargetIsConfig(rules, merged) == merged

\* Object.assign({}, config.rules, ...): the target is a new object, and
\* config.rules holds after the call what it held before.
RulesTarget(rules, merged) == rules

\* What the rules that are on report: each report of the listeners carries
\* the severity its rule is configured with.
ReportsOfRules(reports, rules) ==
    LET on == SelectSeq(reports, LAMBDA p : /\ p.ruleId \in DOMAIN rules
                                            /\ getRuleSeverity(rules[p.ruleId]) # 0)
    IN  [k \in DOMAIN on |-> [on[k] EXCEPT !.severity = getRuleSeverity(rules[on[k].ruleId])]]

\* const configuredRules = Object.assign({}, config.rules,
\* commentDirectives.configuredRules), then runRules: create() of every
\* rule that is not off, then the listeners along the traversal (one per
\* rule, on the Program node), which report.
RunRules(reports) ==
    /\ vpc = "rules"
    /\ LET merged  == commentDirectives.configuredRules @@ vin.rules
           running == {r \in DOMAIN merged : getRuleSeverity(merged[r]) # 0}
       IN  /\ configuredRules' = merged
           /\ lintingProblems' = ReportsOfRules(reports, merged)
           /\ ruleCalls' = [created |-> running, fired |-> Cardinality(running)]
           /\ vin' = [vin EXCEPT !.reports = reports, !.rules = RulesTarget(vin.rules, merged)]
    /\ vsteps' = Append(vsteps, "runRules")
    /\ vpc' = "apply"
    /\ UNCHANGED <<envInFile, commentDirectives, vproblems,
                   vmessages, lastSuppressedMessages, travVars, fixVars, curVars, srcVars, runVars, regVars>>

\* return applyDisableDirectives({directives, problems: sorted, ...})
ApplyDisableDirectives ==
    /\ vpc = "apply"
    /\ vproblems' = applyDisableDirectives(commentDirectives.disableDirectives,
                        ProblemsHanded(lintingProblems, commentDirectives.problems))
    /\ vsteps' = Append(vsteps, "applyDisableDirectives")
    /\ vpc' = "returned"
    /\ UNCHANGED <<vin, envInFile, commentDirectives, configuredRules, lintingProblems, ruleCalls,
                   vmessages, lastSuppressedMessages, travVars, fixVars, curVars, srcVars, runVars, regVars>>

\* The suppressed messages of the call added to the ones held.
SuppressedAccumulated(held, suppressedMessages) == held \o suppressedMessages

\* slots.lastSuppressedMessages = suppressedMessages
SuppressedStored(held, suppressedMessages) == suppressedMessages

\* verify: return this._distinguishSuppressedMessages(...)
DistinguishSuppressedMessages ==
    /\ vpc = "returned"
    /\ vmessages' = SelectSeq(vproblems, LAMBDA m : m.suppressions = <<>>)
    /\ lastSuppressedMessages' =
            SuppressedStored(lastSuppressedMessages,
                             SelectSeq(vproblems, LAMBDA m : m.suppressions # <<>>))
    /\ vpc' = "done"
    /\ UNCHANGED <<vin, envInFile, commentDirectives, configuredRules, lintingProblems, ruleCalls,
                   vsteps, vproblems, travVars, fixVars, curVars, srcVars, runVars, regVars>>

\* linter.verify(otherText, config, options) once more, on a text without
\* comments and with the config object and the options of the first call
VerifyAgain ==
    /\ vpc = "done" /\ vin.call = 1
    /\ vin' = [vin EXCEPT !.call = 2, !.parses = TRUE, !.env = {}, !.comments = <<>>,
                          !.reports = <<>>, !.suppressedBefore = lastSuppressedMessages]
    /\ vpc' = "parser"
    /\ envInFile' = {}
    /\ commentDirectives' = NoDirectives
    /\ configuredRules' = EmptyObject
    /\ lintingProblems' = <<>>
    /\ ruleCalls' = [created |-> {}, fired |-> 0]
    /\ vsteps' = <<>>
    /\ vproblems' = <<>>
    /\ vmessages' = <<>>
    /\ UNCHANGED <<lastSuppressedMessages, travVars, fixVars, curVars, srcVars, runVars, regVars>>

NextVerify ==
    \/ VerifyAgain
    \/ ResolveParser
    \/ FindEslintEnv
    \/ Parse
    \/ GetDirectiveComments
    \/ \E reports \in ReportLists : RunRules(reports)
    \/ ApplyDisableDirectives
    \/ DistinguishSuppressedMessages

SpecVerify == InitVerify /\ [][NextVerify]_vars

(***************************************************************************)
(* Token store: the cursors.  A text is given by its layout, the sequence  *)
(* of its tokens ("p1", "q1": one character, "p2": two), its comments      *)
(* ("c2") and the blanks between them ("g1"); tokens are of kind p or q.   *)
(***************************************************************************)
LayoutLen == 4

MaxTokens == 4

MaxSkip == 3

ItemLength(item) == IF item \in {"p2", "c2"} THEN 2 ELSE 1

\* The tokens and comments of a layout that starts at offset pos.
RECURSIVE LayoutItems(_, _)
LayoutItems(layout, pos) ==
    IF layout = <<>> THEN <<>>
    ELSE LET item == Head(layout)
             rest == LayoutItems(Tail(layout), pos + ItemLength(item))
         IN  IF item = "g1" THEN rest
             ELSE <<[type  |-> IF item = "c2" THEN "Comment" ELSE "Token",
                     kind  |-> IF item = "q1" THEN "q" ELSE "p",
                     range |-> <<pos, pos + ItemLength(item)>>]>> \o rest

LayoutTokens(layout) == SelectSeq(LayoutItems(layout, 0), LAMBDA x : x.type = "Token")

LayoutComments(layout) == SelectSeq(LayoutItems(layout, 0), LAMBDA x : x.type = "Comment")

\* tokens[i] of the code (indices from 0); undefined outside the array.
TokenAt(tokens, i) == IF i >= 0 /\ i < Len(tokens) THEN tokens[i + 1] ELSE UndefinedToken

\* The index of the first token that starts at or behind a location.
FollowingIndex(tokens, loc) == Cardinality({i \in DOMAIN tokens : tokens[i].range[1] < loc})

\* The location-to-index map as (location, index) pairs.  The start of
\* token i is mapped to i, the start of a comment to the index of the token
\* that follows it.  Under "end" the end of token i is mapped to i + 1 and
\* the end of a comment to the token that follows it; under "end-1" the
\* last offset of a token or comment is mapped like its start.
IndexMapPairs(kind, tokens, comments) ==
    LET all == Range(tokens) \cup Range(comments)
    IN  {<<x.range[1], FollowingIndex(tokens, x.range[1])>> : x \in all}
        \cup (IF kind = "end"
              THEN {<<x.range[2], FollowingIndex(tokens, x.range[2])>> : x \in all}
              ELSE {<<x.range[2] - 1, FollowingIndex(tokens, x.range[1])>> : x \in all})

IndexMap(kind, tokens, comments) ==
    LET pairs == IndexMapPairs(kind, tokens, comments)
    IN  [loc \in {q[1] : q \in pairs} |-> CHOOSE v \in {q[2] : q \in pairs} : <<loc, v>> \in pairs]

getFirstIndex(tokens, indexMap, startLoc) ==
    IF startLoc \in DOMAIN indexMap THEN indexMap[startLoc]
    ELSE IF startLoc - 1 \in DOMAIN indexMap
    THEN LET index == indexMap[startLoc - 1]
             token == TokenAt(tokens, index)
         IN  IF token # UndefinedToken /\ token.range[1] >= startLoc THEN index ELSE index + 1
    ELSE 0

LastIndexNotLowered(tokens, indexMap, endLoc) ==
    IF endLoc \in DOMAIN indexMap THEN indexMap[endLoc]
    ELSE IF endLoc - 1 \in DOMAIN indexMap THEN indexMap[endLoc - 1]
    ELSE Len(tokens) - 1

getLastIndex(tokens, indexMap, endLoc) ==
    IF endLoc \in DOMAIN indexMap THEN indexMap[endLoc] - 1
    ELSE IF endLoc - 1 \in DOMAIN indexMap
    THEN LET index == indexMap[endLoc - 1]
             token == TokenAt(tokens, index)
         IN  IF token # UndefinedToken /\ token.range[2] > endLoc THEN index - 1 ELSE index
    ELSE Len(tokens) - 1

\* The predicates handed to createCursor as `filter`; "none" is null.
Filters == {"none", "p", "q"}

\* A predicate every token passes.
predicateOfAll(filter, token) == TRUE

\* options.filter: the tokens of one kind pass
predicate(filter, token) == token.kind = filter

\* createCursor: if (filter) ..., if (skip >= 1) ..., if (count >= 0) ...
SkipFromTwo(skip) == skip >= 2

SkipWanted(skip) == skip >= 1

LimitFromOne(count) == count >= 1

LimitWanted(count) == count >= 0

\* The result of a moveNext(): what it returned and the fields behind it.
Moved(ok, c) == [ok |-> ok, cur |-> c]

\* ForwardTokenCursor.moveNext
ForwardMoveNext(c) ==
    IF c.index <= c.indexEnd
    THEN Moved(TRUE, [c EXCEPT !.current = TokenAt(cin.tokens, c.index), !.index = c.index + 1])
    ELSE Moved(FALSE, c)

\* FilterCursor.moveNext, over the forward cursor
RECURSIVE FilterMoveNext(_)
FilterMoveNext(c) ==
    LET r == ForwardMoveNext(c)
    IN  IF r.ok /\ ~predicate(c.filter, r.cur.current) THEN FilterMoveNext(r.cur) ELSE r

BelowSkip(c) == IF c.filter # "none" THEN FilterMoveNext(c) ELSE ForwardMoveNext(c)

\* SkipCursor.moveNext
RECURSIVE SkipMoveNext(_)
SkipMoveNext(c) ==
    IF c.skipCount > 0
    THEN LET r == BelowSkip([c EXCEPT !.skipCount = c.skipCount - 1])
         IN  IF ~r.ok THEN r ELSE SkipMoveNext(r.cur)
    ELSE BelowSkip(c)

\* LimitCursor.moveNext; limitCount = -1 when there is no LimitCursor
LimitMoveNext(c) ==
    IF c.limitCount = -1 THEN SkipMoveNext(c)
    ELSE IF c.limitCount > 0 THEN SkipMoveNext([c EXCEPT !.limitCount = c.limitCount - 1])
    ELSE Moved(FALSE, c)

\* The arguments of createCursor (includeComments false).
CursorInput(tokens, comments, indexMap, startLoc, endLoc, filter, skip, count) ==
    [tokens |-> tokens, comments |-> comments, indexMap |-> indexMap, startLoc |-> startLoc,
     endLoc |-> endLoc, filter |-> filter, skip |-> skip, count |-> count]

Layouts(items, n) == UNION {[1..k -> items] : k \in 0..n}

\* The ranges asked for on given tokens: from the start of a token to the
\* end of the same or a later one, and [0, 0) where there is no token.
NodeRanges(tokens) ==
    IF tokens = <<>> THEN {<<0, 0>>}
    ELSE {<<tokens[q[1]].range[1], tokens[q[2]].range[2]>> :
            q \in {x \in (DOMAIN tokens) \X (DOMAIN tokens) : x[1] <= x[2]}}

\* Plain cursors over any range of any layout, and decorated cursors over
\* all the tokens of a text without comments and blanks.
CursorInputs ==
    UNION {{CursorInput(LayoutTokens(l), LayoutComments(l), m, r[1], r[2], "none", 0, -1) :
                m \in {"end", "end-1"}, r \in NodeRanges(LayoutTokens(l))} :
           l \in Layouts({"p1", "p2", "c2", "g1"}, LayoutLen)}
    \cup {CursorInput(LayoutTokens(l), <<>>, "end", 0, Len(l), f, sk, cnt) :
            l \in Layouts({"p1", "q1"}, MaxTokens), f \in Filters,
            sk \in 0..MaxSkip, cnt \in (-1)..MaxTokens}

InitCursor ==
    /\ cin \in CursorInputs
    /\ cur = NoCursor
    /\ yielded = <<>>
    /\ cpc = "create"
    /\ cret = NoReturn
    /\ TraverserConstructed({AstLeaf}, {"null"})
    /\ FixIdle
    /\ VerifyIdle
    /\ SourceCodeIdle
    /\ RunRulesIdle
    /\ RulesIdle

\* Array.prototype.slice(start, end): a negative argument counts from the
\* end of the array.
slice(array, start, end) ==
    LET n    == Len(array)
        from == IF start < 0 THEN (IF n + start < 0 THEN 0 ELSE n + start)
                ELSE IF start > n THEN n ELSE start
        to   == IF end < 0 THEN (IF n + end < 0 THEN 0 ELSE n + end)
                ELSE IF end > n THEN n ELSE end
    IN  SubSeq(array, from + 1, to)

\* The end handed to slice, without the + 1.
SliceEndShort(indexEnd) == indexEnd

\* this.tokens.slice(this.index, this.indexEnd + 1)
SliceEnd(indexEnd) == indexEnd + 1

\* this.index <= this.indexEnd
OneTokenLeft(index, indexEnd) == index <= indexEnd

\* createCursor(tokens, comments, indexMap, startLoc, endLoc, false, filter, skip, count)
CreateCursor ==
    /\ cpc = "create"
    /\ LET indexMap == IndexMap(cin.indexMap, cin.tokens, cin.comments)
       IN  cur' = [index      |-> getFirstIndex(cin.tokens, indexMap, cin.startLoc),
                   indexEnd   |-> getLastIndex(cin.tokens, indexMap, cin.endLoc),
                   filter     |-> cin.filter,
                   skipCount  |-> IF SkipWanted(cin.skip) THEN cin.skip ELSE 0,
                   limitCount |-> IF LimitWanted(cin.count) THEN cin.count ELSE -1,
                   current    |-> NullToken]
    /\ cpc' = "iterate"
    /\ UNCHANGED <<cin, yielded, cret, travVars, fixVars, verVars, srcVars, runVars, regVars>>

\* cursor.moveNext(): a turn of while (this.moveNext()) tokens.push(this.current)
\* in Cursor.getAllTokens, or a call made after the loop has ended
MoveNext ==
    /\ cpc \in {"iterate", "done"}
    /\ LET r == LimitMoveNext(cur)
       IN  /\ cur' = r.cur
           /\ yielded' = IF r.ok THEN Append(yielded, r.cur.current) ELSE yielded
           /\ cpc' = IF ~r.ok THEN "done" ELSE IF cpc = "done" THEN "revived" ELSE "iterate"
    /\ UNCHANGED <<cin, cret, travVars, fixVars, verVars, srcVars, runVars, regVars>>

\* ForwardTokenCursor.getOneToken(), on a cursor that is not decorated
GetOneToken ==
    /\ cpc = "iterate" /\ cret.oneAt = -1
    /\ cin.filter = "none" /\ ~SkipWanted(cin.skip) /\ ~LimitWanted(cin.count)
    /\ cret' = [cret EXCEPT !.oneAt = Len(yielded),
                            !.one = IF OneTokenLeft(cur.index, cur.indexEnd)
                                    THEN TokenAt(cin.tokens, cur.index) ELSE NullToken]
    /\ UNCHANGED <<cin, cur, yielded, cpc, travVars, fixVars, verVars, srcVars, runVars, regVars>>

\* ForwardTokenCursor.getAllTokens(), on a cursor that is not decorated
GetAllTokens ==
    /\ cpc = "iterate" /\ cret.allAt = -1
    /\ cin.filter = "none" /\ ~SkipWanted(cin.skip) /\ ~LimitWanted(cin.count)
    /\ cret' = [cret EXCEPT !.allAt = Len(yielded),
                            !.all = slice(cin.tokens, cur.index, SliceEnd(cur.indexEnd))]
    /\ UNCHANGED <<cin, cur, yielded, cpc, travVars, fixVars, verVars, srcVars, runVars, regVars>>

NextCursor == CreateCursor \/ MoveNext \/ GetOneToken \/ GetAllTokens

SpecCursor == InitCursor /\ [][NextCursor]_vars

(***************************************************************************)
(* SourceCode: sortedMerge, the line table of the constructor,             *)
(* getLocFromIndex and getIndexFromLoc.  Offsets, columns and array        *)
(* indices count from 0 as in the code, lines from 1.                      *)
(***************************************************************************)
LocLen == 3

\* CR, LF, U+2028 and U+2029; "x" is any other character.
LineBreaks == {"CR", "LF", "LS", "PS"}

TextChars == {"x"} \cup LineBreaks

SourceTexts == UNION {[1..n -> TextChars] : n \in 0..LocLen}

Least(S) == CHOOSE x \in S : \A y \in S : x <= y

\* tokens[tokenIndex].range[0] > comments[commentIndex].range[0]
TokenStartsBehind(token, comment) == token.range[1] > comment.range[1]

\* tokens[tokenIndex].range[0] < comments[commentIndex].range[0]
TokenStartsFirst(token, comment) == token.range[1] < comment.range[1]

\* while (tokenIndex < tokens.length || commentIndex < comments.length)
MergeUnfinished ==
    \/ srcOut.tokenIndex < Len(srcIn.tokens)
    \/ srcOut.commentIndex < Len(srcIn.comments)

InitMerge ==
    /\ srcIn \in {[tokens |-> LayoutTokens(l), comments |-> LayoutComments(l), text |-> <<>>] :
                    l \in Layouts({"p1", "p2", "c2", "g1"}, LayoutLen)}
    /\ srcOut = NoSourceCode
    /\ srcPc = "merge"
    /\ TraverserConstructed({AstLeaf}, {"null"})
    /\ FixIdle
    /\ VerifyIdle
    /\ CursorIdle
    /\ RunRulesIdle
    /\ RulesIdle

\* sortedMerge: one turn of the loop
MergeStep ==
    /\ srcPc = "merge"
    /\ MergeUnfinished
    /\ LET ti == srcOut.tokenIndex
           ci == srcOut.commentIndex
       IN  IF \/ ci >= Len(srcIn.comments)
              \/ /\ ti < Len(srcIn.tokens)
                 /\ TokenStartsFirst(srcIn.tokens[ti + 1], srcIn.comments[ci + 1])
           THEN srcOut' = [srcOut EXCEPT !.result = Append(@, srcIn.tokens[ti + 1]),
                                         !.tokenIndex = ti + 1]
           ELSE srcOut' = [srcOut EXCEPT !.result = Append(@, srcIn.comments[ci + 1]),
                                         !.commentIndex = ci + 1]
    /\ UNCHANGED <<srcIn, srcPc, travVars, fixVars, verVars, curVars, runVars, regVars>>

\* sortedMerge: return result
MergeReturn ==
    /\ srcPc = "merge"
    /\ ~MergeUnfinished
    /\ srcPc' = "merged"
    /\ UNCHANGED <<srcIn, srcOut, travVars, fixVars, verVars, curVars, runVars, regVars>>

NextMerge == MergeStep \/ MergeReturn

SpecMerge == InitMerge /\ [][NextMerge]_vars

\* The length of the line break found at offset i: CR LF is one break.
MatchLength(t, i) ==
    IF t[i + 1] = "CR" /\ i + 1 < Len(t) /\ t[i + 2] = "LF" THEN 2 ELSE 1

\* lineEndingPattern.exec: the offset of the next break at or behind
\* lastIndex, -1 for null.
NextMatch(t, lastIndex) ==
    LET found == {i \in lastIndex..(Len(t) - 1) : t[i + 1] \in LineBreaks}
    IN  IF found = {} THEN -1 ELSE Least(found)

\* The constructor's loop over the line breaks and the push behind it.
RECURSIVE ScanLines(_, _, _)
ScanLines(t, lines, starts) ==
    LET from  == Last(starts)
        match == NextMatch(t, from)
    IN  IF match = -1
        THEN [lines |-> Append(lines, SubSeq(t, from + 1, Len(t))),
              lineStartIndices |-> starts]
        ELSE ScanLines(t, Append(lines, SubSeq(t, from + 1, match)),
                       Append(starts, match + MatchLength(t, match)))

Loc(line, column) == [type |-> "loc", line |-> line, column |-> column, index |-> 0]

Index(i) == [type |-> "index", line |-> 0, column |-> 0, index |-> i]

RangeError == [type |-> "RangeError", line |-> 0, column |-> 0, index |-> 0]

getLocFromIndex(s, t, index) ==
    IF index < 0 \/ index > Len(t) THEN RangeError
    ELSE IF index = Len(t) THEN Loc(Len(s.lines), Len(Last(s.lines)))
    ELSE LET starts     == s.lineStartIndices
             lineNumber == IF index >= Last(starts) THEN Len(starts)
                           ELSE Least({j \in 0..(Len(starts) - 1) : index < starts[j + 1]})
         IN  Loc(lineNumber, index - starts[lineNumber])

\* A column that reaches the start of the next line is out of range.
ColumnRejected(positionIndex, lineEndIndex) == positionIndex >= lineEndIndex

getIndexFromLoc(s, t, loc) ==
    LET starts == s.lineStartIndices
    IN  IF loc.line <= 0 THEN RangeError
        ELSE IF loc.line > Len(starts) THEN RangeError
        ELSE LET lineStartIndex == starts[loc.line]
                 lineEndIndex   == IF loc.line = Len(starts) THEN Len(t)
                                   ELSE starts[loc.line + 1]
                 positionIndex  == lineStartIndex + loc.column
             IN  IF \/ loc.line = Len(starts) /\ positionIndex > lineEndIndex
                    \/ loc.line < Len(starts) /\ ColumnRejected(positionIndex, lineEndIndex)
                 THEN RangeError
                 ELSE Index(positionIndex)

\* The indices and locations a caller may hand in.
Offsets(t) == (-1)..(Len(t) + 1)

Locations(t) == {Loc(l, c) : l \in 0..(Len(t) + 2), c \in (-1)..(Len(t) + 1)}

InitLoc ==
    /\ srcIn \in {[tokens |-> <<>>, comments |-> <<>>, text |-> t] : t \in SourceTexts}
    /\ srcOut = NoSourceCode
    /\ srcPc = "new"
    /\ TraverserConstructed({AstLeaf}, {"null"})
    /\ FixIdle
    /\ VerifyIdle
    /\ CursorIdle
    /\ RunRulesIdle
    /\ RulesIdle

\* new SourceCode(text, ast): this.lines and this.lineStartIndices
Construct ==
    /\ srcPc = "new"
    /\ LET table == ScanLines(srcIn.text, <<>>, <<0>>)
       IN  srcOut' = [srcOut EXCEPT !.lines = table.lines,
                                    !.lineStartIndices = table.lineStartIndices]
    /\ srcPc' = "ready"
    /\ UNCHANGED <<srcIn, travVars, fixVars, verVars, curVars, runVars, regVars>>

\* sourceCode.getLocFromIndex(index), on an index of the caller or on the
\* index getIndexFromLoc has just returned
GetLocFromIndex ==
    /\ srcPc \in {"ready", "index"}
    /\ \E index \in IF srcPc = "ready" THEN Offsets(srcIn.text) ELSE {srcOut.first.index} :
         LET r == getLocFromIndex(srcOut, srcIn.text, index)
         IN  IF srcPc = "ready"
             THEN /\ srcOut' = [srcOut EXCEPT !.arg = Index(index), !.first = r]
                  /\ srcPc' = IF r = RangeError THEN "thrown" ELSE "loc"
             ELSE /\ srcOut' = [srcOut EXCEPT !.second = r]
                  /\ srcPc' = "done"
    /\ UNCHANGED <<srcIn, travVars, fixVars, verVars, curVars, runVars, regVars>>

\* sourceCode.getIndexFromLoc(loc), on a location of the caller or on the
\* location getLocFromIndex has just returned
GetIndexFromLoc ==
    /\ srcPc \in {"ready", "loc"}
    /\ \E loc \in IF srcPc = "ready" THEN Locations(srcIn.text) ELSE {srcOut.first} :
         LET r == getIndexFromLoc(srcOut, srcIn.text, loc)
         IN  IF srcPc = "ready"
             THEN /\ srcOut' = [srcOut EXCEPT !.arg = loc, !.first = r]
                  /\ srcPc' = IF r = RangeError THEN "thrown" ELSE "index"
             ELSE /\ srcOut' = [srcOut EXCEPT !.second = r]
                  /\ srcPc' = "done"
    /\ UNCHANGED <<srcIn, travVars, fixVars, verVars, curVars, runVars, regVars>>

NextLoc == Construct \/ GetLocFromIndex \/ GetIndexFromLoc

SpecLoc == InitLoc /\ [][NextLoc]_vars

(***************************************************************************)
(* runRules and the try/catch around it in _verifyWithoutProcessors.  The  *)
(* AST is walked by the Traverser above, whose callbacks fill nodeQueue.   *)
(* A rule is given by what its create() does (it returns an object,        *)
(* undefined, null, a number or a boolean, or it throws), by its meta, and *)
(* by the one listener of the object: its selector and whether it is       *)
(* silent, throws, or reports a problem with or without a fix and          *)
(* suggestions.                                                            *)
(***************************************************************************)
DEFAULT_ERROR_LOC == [startLine |-> 1, column |-> 0]

Rule(defined, create, selector, listener, fix, suggest, fixable, hasSuggestions) ==
    [defined |-> defined, create |-> create, selector |-> selector, listener |-> listener,
     fix |-> fix, suggest |-> suggest, fixable |-> fixable, hasSuggestions |-> hasSuggestions]

\* What ruleMapper(ruleId) may give.
RuleDefinitions ==
    {Rule(FALSE, "object", "Leaf", "silent", FALSE, FALSE, FALSE, FALSE)}
    \cup {Rule(TRUE, c, "Leaf", "silent", FALSE, FALSE, FALSE, FALSE) :
            c \in {"object", "undefined", "null", "number", "boolean", "throws"}}
    \cup {Rule(TRUE, "object", sel, "throws", FALSE, FALSE, FALSE, FALSE) :
            sel \in {"Program", "Leaf:exit"}}
    \cup {Rule(TRUE, "object", "Leaf", "reports", f, sg, fx, hs) :
            f \in BOOLEAN, sg \in BOOLEAN, fx \in BOOLEAN, hs \in BOOLEAN}

RuleConfigs(ruleId) ==
    {[ruleId |-> ruleId, severity |-> sev, rule |-> r] : sev \in {0, 1, 2}, r \in RuleDefinitions}

\* A Program on line 1 with one Leaf on line 2.
AstScript ==
    [ n1 |-> [type |-> "Program", own |-> <<"body">>, val |-> [body |-> Arr(<<"n2">>)]],
      n2 |-> [type |-> "Leaf", own |-> <<>>, val |-> <<>>] ]

\* sourceCode.ast of the texts linted.
SourceAsts == {AstScript, AstProgram}

\* node.loc.start.line
NodeLine == [n1 |-> 1, n2 |-> 2, n3 |-> 3, n4 |-> 2, n5 |-> 3]

\* The enter callback without its assignment.
ParentNotSet(parent) == "undefined"

\* enter(node, parent) { node.parent = parent; ... }
SetParent(parent) == parent

\* node.parent of every node after the callbacks made so far ("undefined"
\* while the node was not entered).
Parents ==
    [n \in DOMAIN ast |->
        LET entered == {k \in DOMAIN emitted :
                            emitted[k].kind = "enter" /\ emitted[k].node = n}
        IN  IF entered = {} THEN "undefined"
            ELSE SetParent(emitted[CHOOSE k \in entered : \A x \in entered : x <= k].parent)]

\* nodeQueue after the callbacks made so far: enter pushes
\* { isEntering: true, node }, leave pushes { isEntering: false, node }.
nodeQueue ==
    [k \in DOMAIN emitted |->
        [isEntering |-> emitted[k].kind = "enter", node |-> emitted[k].node,
         type |-> ast[emitted[k].node].type, line |-> NodeLine[emitted[k].node]]]

\* The event of eventGenerator.enterNode / leaveNode.
EventOf(traversalInfo) ==
    IF traversalInfo.isEntering THEN traversalInfo.type
    ELSE CASE traversalInfo.type = "Leaf" -> "Leaf:exit"
           [] traversalInfo.type = "Pair" -> "Pair:exit"
           [] traversalInfo.type = "Custom" -> "Custom:exit"
           [] OTHER -> "Program:exit"

\* The severity of the problem of a rule that was not found.
SeverityOfConfig(severity) == severity

SeverityDefault(severity) == 2

\* Every rule taken as switched on.
RuleNeverOff(severity) == FALSE

\* if (severity === 0) return;
RuleOff(severity) == severity = 0

\* typeof ruleListeners === "undefined" || ruleListeners === null
NoListenersObject(ruleListeners) == ruleListeners \in {"undefined", "null"}

\* Every fix let through.
FixAlwaysAllowed(fix, fixable) == FALSE

\* problem.fix && !(rule.meta && rule.meta.fixable)
FixNotDeclared(fix, fixable) == fix /\ ~fixable

\* problem.suggestions && !(rule.meta && rule.meta.hasSuggestions === true)
SuggestionsNotDeclared(suggest, hasSuggestions) == suggest /\ ~hasSuggestions

\* The catch of the queue loop left out.
CurrentNodeNotSet(err, currentNode) == err

\* catch (err) { err.currentNode = currentNode; throw err; }
SetCurrentNode(err, currentNode) == [err EXCEPT !.currentNode = currentNode.line]

\* ruleErrorHandler around one listener of the rule cfg, called for
\* currentNode with the problems and calls so far.
CallListener(cfg, currentNode, problems, calls) ==
    LET rule   == cfg.rule
        called == Append(calls, [call |-> "listener", ruleId |-> cfg.ruleId])
        thrown(kind) == [problems |-> problems, calls |-> called,
                         err |-> [NoError EXCEPT !.kind = kind, !.by = cfg.ruleId,
                                                 !.ruleId = cfg.ruleId]]
    IN  IF rule.listener = "throws" THEN thrown("listener")
        ELSE IF rule.listener = "silent"
        THEN [problems |-> problems, calls |-> called, err |-> NoError]
        ELSE IF FixNotDeclared(rule.fix, rule.fixable) THEN thrown("fixable")
        ELSE IF SuggestionsNotDeclared(rule.suggest, rule.hasSuggestions)
        THEN thrown("suggestions")
        ELSE [problems |-> Append(problems,
                              LintProblem(cfg.ruleId, FALSE, cfg.severity, currentNode.line, 1)),
              calls |-> called, err |-> NoError]

\* The listeners of one event, in the order they were added; the first
\* error ends the emit.
RECURSIVE Emit(_, _, _, _)
Emit(listeners, currentNode, problems, calls) ==
    IF listeners = <<>> THEN [problems |-> problems, calls |-> calls, err |-> NoError]
    ELSE LET r == CallListener(Head(listeners), currentNode, problems, calls)
         IN  IF r.err.kind # "none" THEN r
             ELSE Emit(Tail(listeners), currentNode, r.problems, r.calls)

RunInputs ==
    {<<a>> : a \in RuleConfigs("r1")}
    \cup {<<a, b>> : a \in RuleConfigs("r1"), b \in RuleConfigs("r2")}

InitRunRules ==
    /\ rin \in RunInputs
    /\ rr = RunRulesLocals
    /\ rpc = "traverse"
    /\ TraverserConstructed(SourceAsts, {"n1"})
    /\ FixIdle
    /\ VerifyIdle
    /\ CursorIdle
    /\ SourceCodeIdle
    /\ RulesIdle

\* Traverser.traverse(sourceCode.ast, { enter, leave, visitorKeys }): one
\* step of the walk.  The callbacks call neither skip() nor break().
FillNodeQueue ==
    /\ rpc = "traverse"
    /\ \/ traverse
       \/ TraverseNonNode
       \/ TraverseEnter("none")
       \/ TraverseChildren
       \/ TraverseLeave("none")
       \/ TraverseReturn

\* Traverser.traverse returned: runRules goes on to the rules.
QueueFilled ==
    /\ rpc = "traverse"
    /\ tpc = "done"
    /\ rpc' = "rules"
    /\ UNCHANGED <<rin, rr, travVars, fixVars, verVars, curVars, srcVars, regVars>>

\* Object.keys(configuredRules).forEach(ruleId => ...): one rule
ConfigureRule ==
    /\ rpc = "rules"
    /\ rr.ruleIndex < Len(rin)
    /\ LET cfg    == rin[rr.ruleIndex + 1]
           next   == [rr EXCEPT !.ruleIndex = @ + 1]
           called == [next EXCEPT !.calls = Append(@, [call |-> "create", ruleId |-> cfg.ruleId])]
       IN  IF RuleOff(cfg.severity) THEN rr' = next /\ rpc' = "rules"
           ELSE IF ~cfg.rule.defined
           THEN /\ rr' = [next EXCEPT !.lintingProblems =
                            Append(@, createLintingProblem(cfg.ruleId, DEFAULT_ERROR_LOC,
                                                           SeverityDefault(cfg.severity)))]
                /\ rpc' = "rules"
           ELSE IF cfg.rule.create = "throws"
           THEN /\ rr' = [called EXCEPT !.err = [NoError EXCEPT !.kind = "create",
                                                  !.by = cfg.ruleId, !.loading = cfg.ruleId]]
                /\ rpc' = "caught"
           ELSE IF NoListenersObject(cfg.rule.create)
           THEN /\ rr' = [called EXCEPT !.err = [NoError EXCEPT !.kind = "noObject",
                                                  !.by = cfg.ruleId]]
                /\ rpc' = "caught"
           ELSE IF cfg.rule.create = "object"
           THEN rr' = [called EXCEPT !.listeners = Append(@, cfg)] /\ rpc' = "rules"
           ELSE rr' = called /\ rpc' = "rules"
    /\ UNCHANGED <<rin, travVars, fixVars, verVars, curVars, srcVars, regVars>>

\* The rules are through: the event generator is built.
StartQueue ==
    /\ rpc = "rules"
    /\ rr.ruleIndex = Len(rin)
    /\ rpc' = "queue"
    /\ UNCHANGED <<rin, rr, travVars, fixVars, verVars, curVars, srcVars, regVars>>

\* nodeQueue.forEach(traversalInfo => ...): one entry
VisitNode ==
    /\ rpc = "queue"
    /\ rr.queueIndex < Len(nodeQueue)
    /\ LET traversalInfo == nodeQueue[rr.queueIndex + 1]
           subscribed == SelectSeq(rr.listeners,
                            LAMBDA cfg : cfg.rule.selector = EventOf(traversalInfo))
           r == Emit(subscribed, traversalInfo, rr.lintingProblems, rr.calls)
       IN  /\ rr' = [rr EXCEPT !.queueIndex = @ + 1,
                               !.generated = Append(@,
                                    [isEntering |-> traversalInfo.isEntering,
                                     node |-> traversalInfo.node,
                                     parent |-> Parents[traversalInfo.node]]),
                               !.lintingProblems = r.problems,
                               !.calls = r.calls,
                               !.err = IF r.err.kind = "none" THEN r.err
                                       ELSE SetCurrentNode(r.err, traversalInfo)]
           /\ rpc' = IF r.err.kind = "none" THEN "queue" ELSE "caught"
    /\ UNCHANGED <<rin, travVars, fixVars, verVars, curVars, srcVars, regVars>>

\* return lintingProblems;
ReturnProblems ==
    /\ rpc = "queue"
    /\ rr.queueIndex = Len(nodeQueue)
    /\ rpc' = "returning"
    /\ UNCHANGED <<rin, rr, travVars, fixVars, verVars, curVars, srcVars, regVars>>

\* _verifyWithoutProcessors: catch (err) { ... throw err; }
CatchAndRethrow ==
    /\ rpc = "caught"
    /\ rr' = [rr EXCEPT !.err.messageLine = rr.err.currentNode,
                        !.err.messageRule = IF rr.err.ruleId = "undefined" THEN "none"
                                            ELSE rr.err.ruleId]
    /\ rpc' = "thrown"
    /\ UNCHANGED <<rin, travVars, fixVars, verVars, curVars, srcVars, regVars>>

\* _verifyWithoutProcessors: return applyDisableDirectives({...}), on a text
\* without directive comments
ReturnSorted ==
    /\ rpc = "returning"
    /\ rr' = [rr EXCEPT !.lintingProblems = ProblemsHanded(@, <<>>)]
    /\ rpc' = "returned"
    /\ UNCHANGED <<rin, travVars, fixVars, verVars, curVars, srcVars, regVars>>

NextRunRules ==
    \/ FillNodeQueue
    \/ QueueFilled
    \/ ConfigureRule
    \/ StartQueue
    \/ VisitNode
    \/ ReturnProblems
    \/ CatchAndRethrow
    \/ ReturnSorted

SpecRunRules == InitRunRules /\ [][NextRunRules]_vars

(***************************************************************************)
(* The rule registry: Rules.define and Rules.get (rules.ts), and getRule   *)
(* of the linter.  A rule module is a function (old style), an object with *)
(* a create method, or the path of a file that exports a rule; "b" is the  *)
(* id of a built-in rule.                                                  *)
(***************************************************************************)
MaxDefines == 3

RuleNames == {"b", "x", "p"}

BuiltInIds == {"b"}

\* builtInRules.get(ruleId)
BuiltInRule(ruleId) == [type |-> "object", origin |-> "builtin", serial |-> 0, create |-> TRUE]

\* lastConfigArray.pluginRules.get(ruleId)
PluginRule(ruleId) == [type |-> "object", origin |-> "plugin", serial |-> 0, create |-> TRUE]

\* The module handed to the serial-th define() call.
RuleModule(type, serial) ==
    [type |-> type, origin |-> "defined", serial |-> serial, create |-> type = "object"]

ModuleTypes == {"function", "object", "string"}

\* require(path): the file exports an old-style rule
require(path) == [path EXCEPT !.type = "function"]

\* typeof rule === "function" ? Object.assign({ create: rule }, rule) : rule
normalizeRule(rule) ==
    IF rule.type = "function" THEN [rule EXCEPT !.type = "object", !.create = TRUE] ELSE rule

\* this._rules[ruleId] = normalizeRule(ruleModule)
define(rules, ruleId, ruleModule) ==
    [name \in (DOMAIN rules) \cup {ruleId} |->
        IF name = ruleId THEN normalizeRule(ruleModule) ELSE rules[name]]

\* A defined rule counts only where no rule is built in.
OwnRuleUnlessBuiltIn(rules, ruleId) == ruleId \in DOMAIN rules /\ ruleId \notin BuiltInIds

\* if (this._rules[ruleId])
OwnRule(rules, ruleId) == ruleId \in DOMAIN rules

\* Rules.get: the rules afterwards (a path is loaded and defined) and the
\* value returned
get(rules, ruleId) ==
    LET loaded == IF ruleId \in DOMAIN rules /\ rules[ruleId].type = "string"
                  THEN define(rules, ruleId, require(rules[ruleId]))
                  ELSE rules
    IN  [rules  |-> loaded,
         result |-> IF OwnRule(loaded, ruleId) THEN loaded[ruleId]
                    ELSE IF ruleId \in BuiltInIds THEN BuiltInRule(ruleId)
                    ELSE NullRule]

\* slots.lastConfigArray && slots.lastConfigArray.pluginRules?.get(ruleId),
\* as a truth value
PluginRuleFound(configArray, ruleId) ==
    ~configArray.isNull /\ configArray.hasPluginRules /\ ruleId \in configArray.pluginRules

\* getRule(slots, ruleId)
getRule(configArray, rules, ruleId) ==
    IF PluginRuleFound(configArray, ruleId)
    THEN [rules |-> rules, result |-> PluginRule(ruleId)]
    ELSE get(rules, ruleId)

\* The config arrays verify may be called with: without plugin rules, with a
\* plugin rule of the id of a built-in rule and of an id that may be
\* defined, with a plugin rule of another id.
ConfigArrays ==
    {[isNull |-> FALSE, hasPluginRules |-> FALSE, pluginRules |-> {}],
     [isNull |-> FALSE, hasPluginRules |-> TRUE, pluginRules |-> {"b", "x"}],
     [isNull |-> FALSE, hasPluginRules |-> TRUE, pluginRules |-> {"p"}]}

InitRules ==
    /\ RulesConstructed
    /\ gpc = "ready"
    /\ TraverserConstructed({AstLeaf}, {"null"})
    /\ FixIdle
    /\ VerifyIdle
    /\ CursorIdle
    /\ SourceCodeIdle
    /\ RunRulesIdle

\* linter.defineRule(ruleId, ruleModule): slots.ruleMap.define(...)
Define(ruleId, type) ==
    /\ gpc = "ready"
    /\ Len(defines) < MaxDefines
    /\ _rules' = define(_rules, ruleId, RuleModule(type, Len(defines) + 1))
    /\ defines' = Append(defines, [id |-> ruleId, type |-> type])
    /\ got' = NoLookup
    /\ UNCHANGED <<lastConfigArray, gpc, travVars, fixVars, verVars, curVars, srcVars, runVars>>

\* _verifyWithConfigArray: slots.lastConfigArray = configArray
VerifyWithConfigArray(configArray) ==
    /\ gpc = "ready"
    /\ lastConfigArray' = configArray
    /\ got' = NoLookup
    /\ UNCHANGED <<_rules, defines, gpc, travVars, fixVars, verVars, curVars, srcVars, runVars>>

\* slots.ruleMap.get(ruleId)
Get(ruleId) ==
    /\ gpc = "ready"
    /\ LET r == get(_rules, ruleId)
       IN  /\ _rules' = r.rules
           /\ got' = [via |-> "get", id |-> ruleId, result |-> r.result]
    /\ UNCHANGED <<lastConfigArray, defines, gpc, travVars, fixVars, verVars, curVars, srcVars, runVars>>

\* getRule(slots, ruleId)
GetRule(ruleId) ==
    /\ gpc = "ready"
    /\ LET r == getRule(lastConfigArray, _rules, ruleId)
       IN  /\ _rules' = r.rules
           /\ got' = [via |-> "getRule", id |-> ruleId, result |-> r.result]
    /\ UNCHANGED <<lastConfigArray, defines, gpc, travVars, fixVars, verVars, curVars, srcVars, runVars>>

NextRules ==
    \/ \E ruleId \in RuleNames, type \in ModuleTypes : Define(ruleId, type)
    \/ \E configArray \in ConfigArrays : VerifyWithConfigArray(configArray)
    \/ \E ruleId \in RuleNames : Get(ruleId)
    \/ \E ruleId \in RuleNames : GetRule(ruleId)

SpecRules == InitRules /\ [][NextRules]_vars

(***************************************************************************)
(* Linter.verify: the claims.                                              *)
(***************************************************************************)
\* The parser rejected the text of the call and the call went on to return.
ParseRejected ==
    vpc \in {"returned", "done"} /\ ~vin.parses /\ vin.parser # "unregistered"

\* What holds of every call on a text the parser rejects: the parse is the
\* last call made, the result is the one fatal problem, and no rule and no
\* directive comment of the parsed text was touched.
ReturnsParseErrorOnly ==
    /\ Last(vsteps) = "parse"
    /\ Range(vsteps) \cap {"getDirectiveComments", "runRules", "applyDisableDirectives"} = {}
    /\ vproblems = <<ParseError>>
    /\ vproblems[1].fatal /\ vproblems[1].severity = 2 /\ vproblems[1].ruleId = "null"
    /\ ruleCalls.created = {} /\ ruleCalls.fired = 0
    /\ commentDirectives = NoDirectives /\ lintingProblems = <<>>
    /\ vpc = "done" => vmessages = vproblems /\ lastSuppressedMessages = <<>>

\* C1 as claimed: on a text the parser rejects verify returns exactly the
\* fatal problem (severity 2, ruleId null) at once: no create(), no listener,
\* no disable-directive filtering, and no directive of the text is processed.
C1_ParseFailureNoDirectives ==
    ParseRejected => ReturnsParseErrorOnly /\ envInFile = {}

\* C1 as amended: the same, except that the eslint-env comments of the text
\* are searched and taken over before the parse whenever inline
\* configuration is allowed without a warning.
C1_ParseFailureReturnsAtOnce ==
    ParseRejected =>
        /\ ReturnsParseErrorOnly
        /\ envInFile = (IF vin.allowInlineConfig /\ ~vin.warnInlineConfig THEN vin.env ELSE {})

\* C1 witness: the rejected text holds an eslint-env comment and a disable
\* directive; verify returned the fatal problem, the environment taken over.
C1_Witness ==
    /\ vpc = "done" /\ ~vin.parses
    /\ vin.comments # <<>> /\ vin.env # {} /\ envInFile = vin.env
    /\ vmessages = <<ParseError>>

\* The directive names rule r or all rules.
Covers(d, p) == d.ruleId = "null" \/ d.ruleId = p.ruleId

\* The directive lies before (L, C).
Precedes(d, p) == d.line < p.line \/ (d.line = p.line /\ d.column < p.column)

\* Some directive chain active at the position of p covers its rule.
ChainCovers(ds, p) ==
    \/ \E i \in DOMAIN ds :
            /\ ds[i].type = "disable" /\ Covers(ds[i], p) /\ Precedes(ds[i], p)
            /\ ~\E j \in DOMAIN ds :
                    /\ j > i
                    /\ ds[j].type = "enable" /\ Covers(ds[j], p) /\ Precedes(ds[j], p)
    \/ \E i \in DOMAIN ds :
            ds[i].type = "disable-line" /\ Covers(ds[i], p) /\ ds[i].line = p.line
    \/ \E i \in DOMAIN ds :
            ds[i].type = "disable-next-line" /\ Covers(ds[i], p) /\ ds[i].line = p.line - 1

Occurrences(seq, x) == Cardinality({k \in DOMAIN seq : seq[k] = x})

\* C7: of the problems handed to the applier (those of the rules and of the
\* directive comments) each one comes back once, with `suppressions` iff a
\* directive chain covers its rule at its position, and verify returns
\* exactly the ones that are not covered, in their order.
C7_SuppressedIffCovered ==
    (vpc \in {"returned", "done"} /\ vin.parses /\ vin.parser # "unregistered") =>
        LET ds     == commentDirectives.disableDirectives
            given  == lintingProblems \o commentDirectives.problems
            handed == [k \in DOMAIN vproblems |-> [vproblems[k] EXCEPT !.suppressions = <<>>]]
        IN  /\ Len(handed) = Len(given)
            /\ \A x \in Range(given) : Occurrences(handed, x) = Occurrences(given, x)
            /\ \A k \in DOMAIN vproblems :
                    vproblems[k].suppressions # <<>> <=> ChainCovers(ds, handed[k])
            /\ vpc = "done" =>
                    /\ vmessages = SelectSeq(handed, LAMBDA m : ~ChainCovers(ds, m))
                    /\ Len(lastSuppressedMessages) = Len(vproblems) - Len(vmessages)

\* C7 witness: a disable comment and a later enable comment for the same
\* rules; the rules reported behind the enable first and between the two
\* comments second; the problem between them is suppressed, the other one is
\* returned.
C7_Witness ==
    /\ vpc = "done"
    /\ Len(commentDirectives.disableDirectives) = 2
    /\ commentDirectives.disableDirectives[1].type = "disable"
    /\ commentDirectives.disableDirectives[2].type = "enable"
    /\ Len(lintingProblems) = 2
    /\ ProblemBefore(lintingProblems[2], lintingProblems[1])
    /\ Len(lastSuppressedMessages) = 1 /\ Len(vmessages) = 1
    /\ lastSuppressedMessages[1].ruleId = vmessages[1].ruleId
    /\ ProblemBefore(lastSuppressedMessages[1], vmessages[1])

\* C7 witness of the line directives: a disable-next-line comment that ends
\* on the line behind its start suppresses the problem on the line after
\* its end, and a disable-line comment the problem before it on its line.
C7_WitnessLine ==
    /\ vpc = "done"
    /\ Len(vin.comments) = 2
    /\ vin.comments[1].directive = "disable-next-line"
    /\ vin.comments[1].endLine = vin.comments[1].startLine + 1
    /\ vin.comments[2].directive = "disable-line"
    /\ Len(lastSuppressedMessages) = 2
    /\ lastSuppressedMessages[1].line = vin.comments[2].startLine
    /\ lastSuppressedMessages[1].column < vin.comments[2].column
    /\ lastSuppressedMessages[2].line = vin.comments[1].endLine + 1

(***************************************************************************)
(* Linter.verifyAndFix: the claims.                                        *)
(***************************************************************************)
\* Grows with every step of verifyAndFix and is at most 32.
Progress ==
    3 * passNumber + (CASE fpc = "loop" -> 0 [] fpc = "after" -> 1 [] OTHER -> 2)

\* C2: the do body runs at most 10 times and verify is called at most 11
\* times (once per pass and at most once behind the loop); every step brings
\* the call nearer to its return and some step is possible until it returns.
C2_AtMostTenPasses ==
    /\ [](/\ passNumber <= 10
          /\ verifyCalls <= 11
          /\ verifyCalls \in {passNumber, passNumber + 1}
          /\ fpc = "loop" => verifyCalls = passNumber /\ passNumber < 10
          /\ fpc # "done" => ENABLED Next)
    /\ [][Progress' > Progress]_vars

\* C2 witness: rules whose fixes never converge: ten passes each applied a
\* fix, the eleventh verify was made and the call returned.
C2_Witness == fpc = "done" /\ passNumber = 10 /\ verifyCalls = 11

\* C3 as claimed: `fixed` is true iff the returned output differs from the
\* input text.
C3_FixedIffOutputDiffers ==
    fpc = "done" => (fixedResult.fixed <=> fixedResult.output # text)

\* C3 as amended: `fixed` is true iff some pass applied at least one fix, so
\* an output that differs from the input implies fixed.
C3_FixedIffSomeFixApplied ==
    fpc = "done" =>
        /\ fixedResult.fixed <=> everApplied
        /\ fixedResult.output # text => fixedResult.fixed

\* C3 witness: fixes were applied in several passes and the last of them
\* restored the input text: fixed is true and the output equals the input.
C3_Witness ==
    /\ fpc = "done" /\ passNumber >= 3
    /\ fixedResult.fixed /\ fixedResult.output = text

\* C4: the returned messages are the result of the latest verify call, that
\* call linted the returned output, and a verify was made behind the loop
\* exactly when the last pass applied a fix.
C4_MessagesDescribeOutput ==
    fpc = "done" =>
        /\ lastVerify.text = fixedResult.output
        /\ fixedResult.messages = lastVerify.messages
        /\ verifyCalls = passNumber + (IF applied # <<>> THEN 1 ELSE 0)

\* C4 witness: the tenth pass applied a fix that changed the text; the verify
\* behind the loop found a problem in the final text, which is returned.
C4_Witness ==
    /\ fpc = "done" /\ passNumber = 10 /\ applied # <<>>
    /\ fixedResult.output # text
    /\ fixedResult.messages # <<>>
    /\ ~fixedResult.messages[1].fatal

\* A lint ended with the single fatal problem of a parse failure.
FatalLint == verifyCalls >= 1 /\ lastVerify.messages = <<FatalProblem>>

\* C5: after a lint that yields the fatal parse error no further verify call
\* and no further pass is made; the loop is left with the text of that lint
\* as the current text, and the result carries the fatal problem, that text
\* as output, and fixed true iff an earlier pass applied a fix.
C5_FatalStopsTheLoop ==
    /\ [](FatalLint =>
            /\ fpc \in {"after", "done"}
            /\ currentText = lastVerify.text
            /\ fpc = "done" =>
                /\ fixedResult.messages = <<FatalProblem>>
                /\ fixedResult.output = lastVerify.text
                /\ fixedResult.fixed <=> everApplied)
    /\ [][FatalLint => verifyCalls' = verifyCalls /\ passNumber' = passNumber]_vars

\* C5 witness: two passes applied fixes that changed the text, the lint of
\* the third pass was a fatal parse error, and the call returned.
C5_Witness ==
    /\ fpc = "done" /\ FatalLint
    /\ passNumber = 3 /\ verifyCalls = 3
    /\ fixedResult.fixed /\ fixedResult.output # text

\* Two fixes overlap when their ranges share a character or one inserts
\* strictly inside the other; fixes that only touch do not.
Overlaps(f, g) == f.range[1] < g.range[2] /\ g.range[1] < f.range[2]

\* The text edited in place with one fix.
SpliceOne(t, f, shift) ==
    SubSeq(t, 1, f.range[1] + shift) \o f.text \o SubSeq(t, f.range[2] + shift + 1, Len(t))

\* The fixes applied one after the other from the left, every later one
\* moved by what the earlier ones added or removed.
RECURSIVE SpliceLeftToRight(_, _, _)
SpliceLeftToRight(t, ps, shift) ==
    IF ps = <<>> THEN t
    ELSE LET f == Head(ps).fix
         IN  SpliceLeftToRight(SpliceOne(t, f, shift), Tail(ps),
                               shift + Len(f.text) - (f.range[2] - f.range[1]))

\* The fixes applied one after the other from the right.
RECURSIVE SpliceRightToLeft(_, _)
SpliceRightToLeft(t, ps) ==
    IF ps = <<>> THEN t
    ELSE SpliceRightToLeft(SpliceOne(t, Last(ps).fix, 0), Front(ps))

\* The problems applyFixes may fix under options.fix.
FixWanted(m) ==
    m.hasFix /\ (shouldFix = "true" \/ (shouldFix = "predicate" /\ m.ruleId # "r2"))

IsPrefix(s, t) == Len(s) <= Len(t) /\ SubSeq(t, 1, Len(s)) = s

\* The child keys of a node in declaration order: the visitor-key table's
\* entry for its type, else its own properties in property order.
DeclaredKeys(node) ==
    IF node.type \in DOMAIN VisitorKeys THEN VisitorKeys[node.type] ELSE node.own

\* The node children of n: keys in declaration order, array items in index
\* order, values that are no node left out.
ChildNodes(tree, n) ==
    LET ks == DeclaredKeys(tree[n])
        all == Flatten([i \in 1..Len(ks) |-> tree[n].val[ks[i]].v])
    IN  SelectSeq(all, LAMBDA x : x \in DOMAIN tree)

RECURSIVE Descendants(_, _)
Descendants(tree, n) ==
    LET cs == Range(ChildNodes(tree, n))
    IN  cs \cup UNION {Descendants(tree, c) : c \in cs}

\* The enter/leave sequence of a depth-first walk from n that does not
\* descend below the nodes of `pruned`.
RECURSIVE Dfs(_, _, _)
Dfs(tree, n, pruned) ==
    LET cs == ChildNodes(tree, n)
        below == IF n \in pruned THEN <<>>
                 ELSE Flatten([i \in 1..Len(cs) |-> Dfs(tree, cs[i], pruned)])
    IN  <<[kind |-> "enter", node |-> n]>> \o below \o <<[kind |-> "leave", node |-> n]>>

Events == [k \in DOMAIN emitted |-> [kind |-> emitted[k].kind, node |-> emitted[k].node]]

Uninterrupted == \A k \in DOMAIN emitted : emitted[k].ctl = "none"

BreakCalled == \E k \in DOMAIN emitted : emitted[k].ctl \in {"break", "skipbreak"}

\* The nodes whose enter callback called skip().
SkippedNodes ==
    {emitted[k].node : k \in {x \in DOMAIN emitted :
        emitted[x].kind = "enter" /\ emitted[x].ctl \in {"skip", "skipbreak"}}}

At(kind, n) == {k \in DOMAIN emitted : emitted[k].kind = kind /\ emitted[k].node = n}

TreeParent(tree, n) ==
    IF \E p \in DOMAIN tree : n \in Range(ChildNodes(tree, p))
    THEN CHOOSE p \in DOMAIN tree : n \in Range(ChildNodes(tree, p))
    ELSE "null"

\* C8: in a walk in which no callback has called skip() or break(), the
\* callbacks made so far are a prefix of the depth-first enter/leave sequence
\* (children in visitor-key declaration order, array items in index order,
\* non-node values without callbacks); once traverse() has returned every node
\* has exactly one enter and one leave, each descendant's enter and leave lie
\* between its ancestor's enter and leave, and every callback was given the
\* node's parent.
C8_TraverserOrder ==
    Uninterrupted =>
        /\ tpc # "idle" =>
            IsPrefix(Events, IF isNode(ast, root) THEN Dfs(ast, root, {}) ELSE <<>>)
        /\ (tpc = "done" /\ isNode(ast, root)) =>
            /\ Events = Dfs(ast, root, {})
            /\ \A n \in DOMAIN ast :
                /\ Cardinality(At("enter", n)) = 1
                /\ Cardinality(At("leave", n)) = 1
            /\ \A p \in DOMAIN ast : \A c \in Descendants(ast, p) :
                \A ep \in At("enter", p), ec \in At("enter", c),
                   lc \in At("leave", c), lp \in At("leave", p) :
                    ep < ec /\ ec < lc /\ lc < lp
            /\ \A k \in DOMAIN emitted :
                emitted[k].parent = TreeParent(ast, emitted[k].node)

\* C8 witness: an uninterrupted walk of the program tree (array child with a
\* hole, null children, an unknown node type, three levels) has returned.
C8_Witness ==
    /\ tpc = "done" /\ ast = AstProgram /\ root = "n1"
    /\ Uninterrupted
    /\ Len(emitted) = 2 * Cardinality(DOMAIN ast)

\* C9: as long as break() has not been called, the callbacks made are a prefix
\* of the depth-first sequence that leaves out everything below the nodes
\* whose enter callback called skip(), and are that whole sequence once
\* traverse() has returned: no descendant of a skipped node gets a callback,
\* the skipped node's leave is called, the nodes after it are walked as usual,
\* and a skip() from a leave callback changes nothing.
C9_SkipSuppressesDescent ==
    (~BreakCalled /\ tpc # "idle" /\ isNode(ast, root)) =>
        /\ IsPrefix(Events, Dfs(ast, root, SkippedNodes))
        /\ tpc = "done" => Events = Dfs(ast, root, SkippedNodes)
        /\ \A n \in SkippedNodes : \A d \in Descendants(ast, n) :
            At("enter", d) = {} /\ At("leave", d) = {}

\* C9 witness: the enter of n2 (which has the child n4) called skip(), n2 was
\* left, its sibling n3 was walked with its child n5, the leave of n5 called
\* skip() as well, and traverse() has returned.
C9_Witness ==
    /\ tpc = "done" /\ ast = AstProgram /\ ~BreakCalled
    /\ SkippedNodes = {"n2"}
    /\ At("leave", "n2") # {}
    /\ At("enter", "n5") # {}
    /\ \E k \in At("leave", "n5") : emitted[k].ctl = "skip"
    /\ At("leave", "n1") # {}

\* C10: once a callback has called break(), no further enter or leave
\* callback is made, and traverse() returns.
C10_BreakAborts ==
    /\ [][BreakCalled => emitted' = emitted]_vars
    /\ [](BreakCalled => <>(tpc = "done"))

\* C10 witness: the enter of n4, three levels deep in the chain, called
\* break(); traverse() has returned and neither n4 nor its open ancestors
\* n3, n2, n1 were left.
C10_Witness ==
    /\ tpc = "done" /\ ast = AstChain
    /\ \E k \in At("enter", "n4") : emitted[k].ctl = "break" /\ k = Len(emitted)
    /\ \A n \in {"n1", "n2", "n3", "n4"} : At("leave", n) = {}

\* C10 witness for a break() called from a leave callback.
C10_WitnessLeave ==
    /\ tpc = "done" /\ ast = AstChain
    /\ \E k \in At("leave", "n4") : emitted[k].ctl = "break" /\ k = Len(emitted)

(***************************************************************************)
(* Token store: the claims.                                                *)
(***************************************************************************)
\* The tokens that lie inside [s, e), in order.
TokensInside(tokens, s, e) ==
    SelectSeq(tokens, LAMBDA t : s <= t.range[1] /\ t.range[2] <= e)

Greatest(S) == CHOOSE x \in S : \A y \in S : x >= y

\* What a cursor with these arguments is to yield: the base sequence
\* filtered, then without its first `skip` items, then cut to `count` items.
ExpectedOfCursor ==
    LET base    == TokensInside(cin.tokens, cin.startLoc, cin.endLoc)
        kept    == IF cin.filter = "none" THEN base
                   ELSE SelectSeq(base, LAMBDA t : t.kind = cin.filter)
        skipped == SubSeq(kept, cin.skip + 1, Len(kept))
    IN  IF cin.count >= 0 /\ cin.count < Len(skipped)
        THEN SubSeq(skipped, 1, cin.count)
        ELSE skipped

\* C11: the items a cursor of createCursor yields are the base sequence
\* filtered by the predicate, then without the first `skip` survivors, then
\* cut to the first `count` items when count >= 0 and not cut when count < 0.
C11_FilterThenSkipThenLimit ==
    /\ cpc \in {"iterate", "done"} =>
            /\ Len(yielded) <= Len(ExpectedOfCursor)
            /\ yielded = SubSeq(ExpectedOfCursor, 1, Len(yielded))
    /\ cpc = "done" => yielded = ExpectedOfCursor

\* C11 witness: the filter drops a token before the first one yielded, an
\* item that passed the filter is skipped, and the limit cuts the rest.
C11_Witness ==
    /\ cpc = "done"
    /\ cin.filter # "none" /\ cin.skip >= 1 /\ cin.count >= 1
    /\ Len(yielded) = cin.count
    /\ cin.tokens[1].kind # cin.filter
    /\ Cardinality({i \in DOMAIN cin.tokens : cin.tokens[i].kind = cin.filter})
            > cin.skip + cin.count

\* A cursor of the forward cursor alone.
PlainCursor == cin.filter = "none" /\ cin.skip = 0 /\ cin.count = -1

C12_WitnessNone ==
    /\ cpc = "done" /\ PlainCursor
    /\ cin.tokens = <<>> /\ cin.comments # <<>> /\ yielded = <<>>

(***************************************************************************)
(* SourceCode: the claims.                                                 *)
(***************************************************************************)
OfType(items, type) == SelectSeq(items, LAMBDA x : x.type = type)

\* C13: the merged stream of sorted, non-overlapping tokens and comments
\* holds every token and every comment exactly once, keeps the order within
\* the tokens and within the comments, and is strictly increasing in range
\* start.
C13_MergedStreamSorted ==
    srcPc = "merged" =>
        LET result == srcOut.result
        IN  /\ Len(result) = Len(srcIn.tokens) + Len(srcIn.comments)
            /\ OfType(result, "Token") = srcIn.tokens
            /\ OfType(result, "Comment") = srcIn.comments
            /\ \A i \in 1..(Len(result) - 1) : result[i].range[1] < result[i + 1].range[1]

\* C13 witness: tokens and comments alternate, a comment first.
C13_Witness ==
    /\ srcPc = "merged"
    /\ Len(srcIn.tokens) >= 2 /\ Len(srcIn.comments) >= 2
    /\ srcOut.result[1].type = "Comment"
    /\ srcOut.result[2].type = "Token"
    /\ srcOut.result[3].type = "Comment"

\* The (line, column) pairs inside the text: the columns of a line run over
\* its characters and its line break, those of the last line up to the end
\* of the text.
InsideText(loc) ==
    /\ loc.line >= 1 /\ loc.line <= Len(srcOut.lineStartIndices)
    /\ loc.column >= 0

\* C14: getIndexFromLoc(getLocFromIndex(k)) = k for every offset k in
\* 0..len(text), and getLocFromIndex(getIndexFromLoc(loc)) = loc for every
\* (line, column) that getIndexFromLoc accepts.
C14_RoundTrip ==
    /\ (srcPc = "thrown" /\ srcOut.arg.type = "index") =>
            srcOut.arg.index \notin 0..Len(srcIn.text)
    /\ srcPc = "done" =>
            /\ srcOut.arg.type = "index" => srcOut.second = srcOut.arg
            /\ srcOut.arg.type = "loc" => srcOut.second = srcOut.arg

\* C14, for the offsets and for the accepted pairs whose column is not
\* negative: both round trips give back what was handed in.
C14_RoundTripInsideText ==
    /\ (srcPc = "loc" /\ srcOut.arg.type = "index") =>
            getIndexFromLoc(srcOut, srcIn.text, srcOut.first) = srcOut.arg
    /\ (srcPc = "done" /\ srcOut.arg.type = "index") => srcOut.second = srcOut.arg
    /\ (srcPc = "done" /\ srcOut.arg.type = "loc" /\ InsideText(srcOut.arg)) =>
            srcOut.second = srcOut.arg
    /\ (srcPc = "thrown" /\ srcOut.arg.type = "index") =>
            srcOut.arg.index \notin 0..Len(srcIn.text)

\* C14 witness: an offset between the CR and the LF of a line break goes to a
\* location and back.
C14_Witness ==
    /\ srcPc = "done" /\ srcOut.arg.type = "index"
    /\ srcOut.arg.index >= 1 /\ srcOut.arg.index < Len(srcIn.text)
    /\ srcIn.text[srcOut.arg.index] = "CR"
    /\ srcIn.text[srcOut.arg.index + 1] = "LF"
    /\ srcOut.second = srcOut.arg

\* C14 witness: column 0 of the empty last line behind a trailing U+2028
\* goes to the length of the text and back.
C14_WitnessLoc ==
    /\ srcPc = "done" /\ srcOut.arg.type = "loc"
    /\ Len(srcIn.text) >= 2 /\ Last(srcIn.text) = "LS"
    /\ srcOut.arg = Loc(Len(srcOut.lines), 0)
    /\ srcOut.first = Index(Len(srcIn.text))
    /\ srcOut.second = srcOut.arg

(***************************************************************************)
(* Linter.verify: the parser of the config.                                *)
(***************************************************************************)
\* C16 as stated: for a parser name that is not registered verify returns a
\* single problem that is not fatal and lies at line 1, column 0.
C16_UnknownParserNonFatal ==
    (vpc = "done" /\ vin.parser = "unregistered") =>
        /\ Len(vmessages) = 1
        /\ ~vmessages[1].fatal
        /\ vmessages[1].line = 1 /\ vmessages[1].column = 0

\* C16, amended: for a parser name that is not registered verify does not
\* throw and runs no further step; it returns a single problem without a
\* rule id that is fatal, of severity 2, at line 0, column 0.
C16_UnknownParserFatal ==
    vin.parser = "unregistered" =>
        /\ vsteps = <<>>
        /\ vpc \in {"parser", "returned", "done"}
        /\ vpc \in {"returned", "done"} => vproblems = <<ParserNotFound>>
        /\ vpc = "done" =>
                /\ lastSuppressedMessages = <<>>
                /\ Len(vmessages) = 1
                /\ vmessages[1].ruleId = "null"
                /\ vmessages[1].fatal /\ vmessages[1].severity = 2
                /\ vmessages[1].line = 0 /\ vmessages[1].column = 0

\* C16 witness: verify returned for an unregistered parser on a text that
\* the parser would reject and that carries a directive comment.
C16_Witness ==
    /\ vpc = "done" /\ vin.parser = "unregistered"
    /\ ~vin.parses /\ vin.comments # <<>>
    /\ Len(vmessages) = 1

(***************************************************************************)
(* runRules: the claims.                                                   *)
(***************************************************************************)
\* The rules runRules has gone through so far.
Configured == {rin[i] : i \in 1..rr.ruleIndex}

ConfigOf(ruleId) == CHOOSE cfg \in Range(rin) : cfg.ruleId = ruleId

CallsOf(call, ruleId) ==
    Cardinality({k \in DOMAIN rr.calls : rr.calls[k] = [call |-> call, ruleId |-> ruleId]})

ProblemsOf(ruleId) == SelectSeq(rr.lintingProblems, LAMBDA q : q.ruleId = ruleId)

ListenersOf(ruleId) == SelectSeq(rr.listeners, LAMBDA cfg : cfg.ruleId = ruleId)

\* C15: a configured rule that is not off and resolves to no definition
\* makes verify add exactly one problem with its rule id, of severity 2, not
\* fatal, at line 1, column 0 (column 1 counted from 1); the rule is skipped,
\* nothing is thrown on its account, and the other rules run.
C15_UnknownRuleIsOneProblem ==
    /\ \A cfg \in Configured : (cfg.severity # 0 /\ ~cfg.rule.defined) =>
            /\ ProblemsOf(cfg.ruleId) = <<LintProblem(cfg.ruleId, FALSE, 2, 1, 1)>>
            /\ CallsOf("create", cfg.ruleId) = 0 /\ CallsOf("listener", cfg.ruleId) = 0
            /\ ListenersOf(cfg.ruleId) = <<>>
            /\ rr.err.by # cfg.ruleId
    /\ \A cfg \in Configured : (cfg.severity # 0 /\ cfg.rule.defined) =>
            CallsOf("create", cfg.ruleId) = 1

\* C15 witness: verify returned; the first rule, set to warn, was not
\* found, the second one reported on line 2.
C15_Witness ==
    /\ rpc = "returned" /\ Len(rin) = 2
    /\ rin[1].severity = 1 /\ ~rin[1].rule.defined
    /\ Len(rr.lintingProblems) = 2
    /\ rr.lintingProblems[1].ruleId = "r1" /\ rr.lintingProblems[2].ruleId = "r2"
    /\ rr.lintingProblems[2].line = 2

\* C17: create is called exactly once for every rule that is not off and
\* resolves to a definition, and before any listener is called; for a rule
\* that is off create is never called and no listener is added.
C17_CreateOncePerRule ==
    /\ \A i, j \in DOMAIN rr.calls :
            (i < j /\ rr.calls[i].call = "listener") => rr.calls[j].call = "listener"
    /\ \A cfg \in Range(rin) :
            /\ CallsOf("create", cfg.ruleId) <= 1
            /\ cfg.severity = 0 =>
                    /\ CallsOf("create", cfg.ruleId) = 0
                    /\ CallsOf("listener", cfg.ruleId) = 0
                    /\ ListenersOf(cfg.ruleId) = <<>>
            /\ (rpc \in {"queue", "returning", "returned"}
                    /\ cfg.severity # 0 /\ cfg.rule.defined) =>
                    CallsOf("create", cfg.ruleId) = 1

\* C17 witness: verify returned; the first rule is off although it is
\* defined, the second one was created and its listener called.
C17_Witness ==
    /\ rpc = "returned" /\ Len(rin) = 2
    /\ rin[1].severity = 0 /\ rin[1].rule.defined /\ rin[1].rule.listener = "reports"
    /\ rr.calls = <<[call |-> "create", ruleId |-> "r2"], [call |-> "listener", ruleId |-> "r2"]>>
    /\ Len(rr.lintingProblems) = 1

\* C18 as stated: a create() that returns undefined, null, a number or a
\* boolean makes verify throw ("did not return an object").
C18_NonObjectIsFatal ==
    \A cfg \in Configured :
        (cfg.severity # 0 /\ cfg.rule.defined
            /\ cfg.rule.create \in {"undefined", "null", "number", "boolean"}) =>
            rpc \in {"caught", "thrown"} /\ rr.err.kind = "noObject" /\ rr.err.by = cfg.ruleId

\* C18 for undefined and null only: verify throws; a number or a boolean
\* leaves the rule without listeners and the lint goes on.
C18_NullOrUndefinedIsFatal ==
    \A cfg \in Configured : (cfg.severity # 0 /\ cfg.rule.defined) =>
        /\ cfg.rule.create \in {"undefined", "null"} =>
                rpc \in {"caught", "thrown"} /\ rr.err.kind = "noObject" /\ rr.err.by = cfg.ruleId
        /\ cfg.rule.create \in {"number", "boolean"} =>
                rr.err.by # cfg.ruleId /\ ListenersOf(cfg.ruleId) = <<>>

\* C18 witness: verify returned although create() of the first rule gave a
\* number; the second rule reported.
C18_Witness ==
    /\ rpc = "returned" /\ Len(rin) = 2
    /\ rin[1].severity = 2 /\ rin[1].rule.defined /\ rin[1].rule.create = "number"
    /\ Len(rr.lintingProblems) = 1

\* The rule reports a fix or suggestions that its meta does not declare.
ReportsUndeclared(rule) ==
    /\ rule.listener = "reports"
    /\ ((rule.fix /\ ~rule.fixable) \/ (rule.suggest /\ ~rule.hasSuggestions))

\* C19: a report that carries a fix without meta.fixable, or suggestions
\* without meta.hasSuggestions, raises an error that leaves verify, and the
\* problem is not added to the problems collected.
C19_UndeclaredFixThrows ==
    /\ \A cfg \in Range(rin) :
            (CallsOf("listener", cfg.ruleId) > 0 /\ ReportsUndeclared(cfg.rule)) =>
                /\ rpc \in {"caught", "thrown"}
                /\ rr.err.by = cfg.ruleId
                /\ rr.err.kind = IF cfg.rule.fix /\ ~cfg.rule.fixable THEN "fixable"
                                 ELSE "suggestions"
                /\ ProblemsOf(cfg.ruleId) = <<>>
    /\ rr.err.kind \in {"fixable", "suggestions"} =>
            CallsOf("listener", rr.err.by) = 1 /\ ReportsUndeclared(ConfigOf(rr.err.by).rule)

\* C19 witness: the first rule reported a declared fix; the second rule's
\* fix is declared but its suggestions are not: verify threw.
C19_Witness ==
    /\ rpc = "thrown" /\ rr.err.kind = "suggestions" /\ rr.err.by = "r2"
    /\ rin[2].rule.fix /\ rin[2].rule.fixable
    /\ rin[1].rule.fix /\ Len(rr.lintingProblems) = 1

\* C19 witness: a fix without meta.fixable of a rule set to warn.
C19_WitnessFix ==
    /\ rpc = "thrown" /\ rr.err.kind = "fixable" /\ rr.err.by = "r1"
    /\ rin[1].severity = 1 /\ rin[1].rule.hasSuggestions /\ rin[1].rule.suggest

\* The start line of the node runRules holds as currentNode.
CurrentLine == IF rr.queueIndex = 0 THEN 1 ELSE nodeQueue[rr.queueIndex].line

\* C20 as stated: an exception of a listener or of create() leaves verify
\* annotated with the rule id and with the start line of the current node.
C20_ErrorsCarryRuleAndLine ==
    (rpc = "thrown" /\ rr.err.kind \in {"listener", "create"}) =>
        /\ rr.err.by \in {rr.err.messageRule, rr.err.loading}
        /\ rr.err.messageLine = CurrentLine

\* C20, amended: an exception of a listener or of create() is not turned
\* into a problem and no problems are returned; the one of a listener
\* leaves verify annotated with the rule id and the start line of the
\* current node, the one of create() with the rule id in its message only.
C20_ListenerErrorsCarryRuleAndLine ==
    /\ rr.err.kind # "none" => rpc \in {"caught", "thrown"}
    /\ \A cfg \in Range(rin) :
            ((CallsOf("create", cfg.ruleId) > 0 /\ cfg.rule.create = "throws")
                \/ (CallsOf("listener", cfg.ruleId) > 0 /\ cfg.rule.listener = "throws")) =>
                    /\ rpc \in {"caught", "thrown"}
                    /\ rr.err.by = cfg.ruleId
                    /\ rr.err.kind = IF cfg.rule.create = "throws" THEN "create" ELSE "listener"
                    /\ ProblemsOf(cfg.ruleId) = <<>>
    /\ (rpc = "thrown" /\ rr.err.kind = "listener") =>
            /\ rr.err.messageRule = rr.err.by
            /\ rr.err.messageLine = CurrentLine
            /\ EventOf(nodeQueue[rr.queueIndex]) = ConfigOf(rr.err.by).rule.selector
    /\ (rpc = "thrown" /\ rr.err.kind = "create") =>
            /\ rr.err.loading = rr.err.by
            /\ rr.err.messageRule = "none" /\ rr.err.messageLine = 0
            /\ rr.queueIndex = 0

\* C20 witness: the first rule reported on line 2, then the listener of the
\* second rule threw when the node of line 2 was left.
C20_Witness ==
    /\ rpc = "thrown" /\ rr.err.kind = "listener" /\ rr.err.by = "r2"
    /\ rr.err.messageLine = 2 /\ rr.err.messageRule = "r2"
    /\ Len(rr.lintingProblems) = 1

\* C20 witness: create() of the second rule threw.
C20_WitnessCreate ==
    /\ rpc = "thrown" /\ rr.err.kind = "create" /\ rr.err.by = "r2"
    /\ CallsOf("create", "r1") = 1

\* The enter/leave order of the whole walk from the root, as the entries
\* the event generator is to receive.
WholeWalk ==
    LET d == Dfs(ast, root, {})
    IN  [k \in DOMAIN d |-> [isEntering |-> d[k].kind = "enter", node |-> d[k].node]]

QueueOrder ==
    [k \in DOMAIN nodeQueue |->
        [isEntering |-> nodeQueue[k].isEntering, node |-> nodeQueue[k].node]]

GeneratedOrder ==
    [k \in DOMAIN rr.generated |->
        [isEntering |-> rr.generated[k].isEntering, node |-> rr.generated[k].node]]

\* C28: while the traversal of runRules is going on no create() is called,
\* no listener fires and nothing is dispatched; when it is over, the queue
\* is the whole well-nested enter/leave walk of the Traverser and every
\* reachable node holds its parent (null for the root); the event generator
\* receives the entries in queue order, each node with its parent set, and
\* all of them when no listener throws.
C28_QueueBuiltBeforeRules ==
    /\ rpc = "traverse" => rr = RunRulesLocals
    /\ rpc # "traverse" =>
            /\ tpc = "done"
            /\ QueueOrder = WholeWalk
            /\ Parents[root] = "null"
            /\ \A n \in {root} \cup Descendants(ast, root) : Parents[n] = TreeParent(ast, n)
    /\ Len(rr.generated) = rr.queueIndex
    /\ IsPrefix(GeneratedOrder, QueueOrder)
    /\ \A k \in DOMAIN rr.generated :
            rr.generated[k].parent = TreeParent(ast, rr.generated[k].node)
    /\ rpc \in {"returning", "returned"} => GeneratedOrder = WholeWalk
    /\ \A i \in DOMAIN rr.calls : rr.calls[i].call = "listener" => rr.generated # <<>>

\* C28 witness: the program tree (holes, null children, three levels) was
\* linted through; a listener was called for the Leaf below the Pair, which
\* was dispatched with the Pair as its parent.
C28_Witness ==
    /\ rpc = "returned" /\ ast = AstProgram
    /\ Len(rr.generated) = 2 * Cardinality(DOMAIN ast)
    /\ \E i \in DOMAIN rr.calls : rr.calls[i].call = "listener"
    /\ rr.generated[3] = [isEntering |-> TRUE, node |-> "n4", parent |-> "n2"]
    /\ rr.generated[1].parent = "null"

\* C28 witness: a listener threw when the Leaf was left: the entries
\* dispatched are a proper prefix of the queue.
C28_WitnessThrown ==
    /\ rpc = "thrown" /\ rr.err.kind = "listener" /\ ast = AstProgram
    /\ Len(rr.generated) = 4 /\ ~rr.generated[4].isEntering
    /\ Len(nodeQueue) = 10

\* C29: for every combination of filter, skip and count over the forward
\* cursor, moveNext() never returns true after it has returned false, and
\* each time it returns true `current` is a token of the base range that
\* satisfies the predicate.
C29_ExhaustionIsPermanent ==
    /\ cpc # "revived"
    /\ \A i \in DOMAIN yielded :
            /\ cin.startLoc <= yielded[i].range[1] /\ yielded[i].range[2] <= cin.endLoc
            /\ \E j \in DOMAIN cin.tokens : cin.tokens[j] = yielded[i]
            /\ cin.filter # "none" => yielded[i].kind = cin.filter

\* C29 witness: a filtered, skipping, limited cursor whose limit was not
\* reached returned false, was asked again (the limit counted down further)
\* and returned false again, after having yielded a token.
C29_Witness ==
    /\ cpc = "done"
    /\ cin.filter # "none" /\ cin.skip >= 1 /\ cin.count >= 2
    /\ yielded # <<>>
    /\ cur.limitCount <= cin.count - Len(yielded) - 2

\* C29 witness: a cursor whose skip count exceeds the tokens that pass the
\* filter returned false twice without yielding.
C29_WitnessSkip ==
    /\ cpc = "done" /\ yielded = <<>>
    /\ cin.skip >= 2 /\ cur.skipCount = 0
    /\ TokensInside(cin.tokens, cin.startLoc, cin.endLoc) # <<>>

\* C30: on the forward token cursor, getOneToken() returns the token the next
\* moveNext() makes current, or null when that call returns false, and
\* getAllTokens() returns exactly the tokens the following moveNext() calls
\* yield until exhaustion; neither call moves the cursor.
C30_ShorthandsAgree ==
    /\ (cret.oneAt >= 0 /\ Len(yielded) > cret.oneAt) => cret.one = yielded[cret.oneAt + 1]
    /\ (cret.oneAt >= 0 /\ Len(yielded) = cret.oneAt /\ cpc = "done") => cret.one = NullToken
    /\ (cret.allAt >= 0 /\ cpc = "done") =>
            cret.all = SubSeq(yielded, cret.allAt + 1, Len(yielded))
    /\ (cret.allAt >= 0 /\ cpc = "iterate") =>
            /\ Len(yielded) - cret.allAt <= Len(cret.all)
            /\ SubSeq(yielded, cret.allAt + 1, Len(yielded))
                    = SubSeq(cret.all, 1, Len(yielded) - cret.allAt)

\* C30 witness: both shorthands were called on a cursor over a range
\* narrower than the token list, getAllTokens() after the first moveNext(),
\* and the cursor then ran to exhaustion.
C30_Witness ==
    /\ cpc = "done"
    /\ cret.allAt >= 1 /\ Len(cret.all) >= 2
    /\ cret.oneAt >= 0 /\ cret.one # NullToken
    /\ Len(cin.tokens) > Len(yielded)

\* C30 witness: getOneToken() on an exhausted range returned null.
C30_WitnessNull ==
    /\ cpc = "done" /\ cret.oneAt = Len(yielded) /\ cret.one = NullToken

(***************************************************************************)
(* SourceCode.getIndexFromLoc: the claims.                                 *)
(***************************************************************************)

\* The start index of a line of the table, and the end index
\* getIndexFromLoc takes for it.
LineStartOf(line) == srcOut.lineStartIndices[line]

LineEndOf(line) ==
    IF line = Len(srcOut.lineStartIndices) THEN Len(srcIn.text)
    ELSE srcOut.lineStartIndices[line + 1]

LineOutOfRange(loc) == loc.line <= 0 \/ loc.line > Len(srcOut.lineStartIndices)

\* The column lies past the end of its line: on the last line behind the
\* end of the text, on another line at or behind the start of the next.
ColumnPastEnd(loc) ==
    IF loc.line = Len(srcOut.lineStartIndices)
    THEN LineStartOf(loc.line) + loc.column > LineEndOf(loc.line)
    ELSE LineStartOf(loc.line) + loc.column >= LineEndOf(loc.line)

\* getIndexFromLoc was called on a location of the caller.
LocHandedIn == srcOut.arg.type = "loc" /\ srcPc \in {"thrown", "index", "done"}

\* C25: getIndexFromLoc throws a RangeError whenever the line is <= 0 or
\* greater than the number of lines, or the column is negative or past the
\* end of the line; whenever it returns, the index lies between the start
\* and the end of the addressed line.
C25_ThrowsOutOfRange ==
    LocHandedIn =>
        LET loc == srcOut.arg
        IN  /\ LineOutOfRange(loc) => srcPc = "thrown"
            /\ (~LineOutOfRange(loc) /\ (loc.column < 0 \/ ColumnPastEnd(loc))) =>
                    srcPc = "thrown"
            /\ srcPc # "thrown" =>
                    /\ srcOut.first.index >= LineStartOf(loc.line)
                    /\ srcOut.first.index <= LineEndOf(loc.line)

\* C25, for the line and for the upper limit of the column: a line outside
\* 1..number of lines and a column past the end of the line are rejected,
\* and an index returned for a column >= 0 lies inside the addressed line.
C25_ThrowsAboveRange ==
    LocHandedIn =>
        LET loc == srcOut.arg
        IN  /\ LineOutOfRange(loc) => srcPc = "thrown"
            /\ (~LineOutOfRange(loc) /\ ColumnPastEnd(loc)) => srcPc = "thrown"
            /\ srcPc = "thrown" => (LineOutOfRange(loc) \/ ColumnPastEnd(loc))
            /\ (srcPc # "thrown" /\ loc.column >= 0) =>
                    /\ srcOut.first.index >= LineStartOf(loc.line)
                    /\ srcOut.first.index <= LineEndOf(loc.line)

\* C25 witness: column -1 of the second line is accepted and the index
\* returned lies in the first line.
C25_Witness ==
    /\ srcPc = "index" /\ srcOut.arg.type = "loc"
    /\ srcOut.arg.line = 2 /\ srcOut.arg.column = -1
    /\ srcOut.first.index < LineStartOf(2)

\* C25 witness: a column at the start of the next line is rejected.
C25_WitnessThrown ==
    /\ srcPc = "thrown" /\ srcOut.arg.type = "loc"
    /\ srcOut.arg.line = 1 /\ Len(srcOut.lineStartIndices) >= 2
    /\ srcOut.arg.column = LineStartOf(2)

(***************************************************************************)
(* verify: the list handed to the applier.                                 *)
(***************************************************************************)
\* The problems of a list that lie at one position, in the order of the list.
ProblemsAt(problems, line, column) ==
    SelectSeq(problems, LAMBDA p : p.line = line /\ p.column = column)

\* C21: the problems verify hands to the applier are the rule reports in
\* emission order followed by the problems of the directive comments,
\* sorted by (line, column): the list is non-decreasing in (line, column)
\* and problems at one position keep the order they had before the sort.
C21_HandedListStablySorted ==
    vpc = "apply" =>
        LET given  == lintingProblems \o commentDirectives.problems
            handed == ProblemsHanded(lintingProblems, commentDirectives.problems)
        IN  /\ Len(handed) = Len(given)
            /\ \A i, j \in DOMAIN handed :
                    i < j => \/ handed[i].line < handed[j].line
                             \/ /\ handed[i].line = handed[j].line
                                /\ handed[i].column <= handed[j].column
            /\ \A p \in Range(given) :
                    ProblemsAt(handed, p.line, p.column) = ProblemsAt(given, p.line, p.column)
            /\ \A p \in Range(handed) : p \in Range(given)

\* C21 witness: a rule reported on line 3 at the position where the problem
\* of a directive comment naming an undefined rule lies, then another rule
\* on line 1: the sort moves the second report up, and the first report
\* stays before the problem of the comment.
C21_Witness ==
    /\ vpc = "apply"
    /\ Len(lintingProblems) = 2 /\ Len(commentDirectives.problems) = 1
    /\ lintingProblems[1].line = 3 /\ lintingProblems[2].line = 1
    /\ commentDirectives.problems[1].line = lintingProblems[1].line
    /\ commentDirectives.problems[1].column = lintingProblems[1].column
    /\ ProblemsHanded(lintingProblems, commentDirectives.problems)
            = <<lintingProblems[2], lintingProblems[1], commentDirectives.problems[1]>>

\* C21 witness: two rules reported at one position; the reports stay in
\* the order of their emission.
C21_WitnessTie ==
    /\ vpc = "apply"
    /\ Len(lintingProblems) = 2
    /\ lintingProblems[1].ruleId = "r2" /\ lintingProblems[2].ruleId = "r1"
    /\ lintingProblems[1].line = lintingProblems[2].line
    /\ lintingProblems[1].column = lintingProblems[2].column

(***************************************************************************)
(* createDisableDirectives: the claims.                                    *)
(***************************************************************************)
\* The comment is handed to createDisableDirectives: it carries one of the
\* four directives, inline configuration is read without warning, and the
\* comment is no line comment carrying a region directive and no
\* disable-line comment on two lines.
HandedToCreate(c) ==
    /\ c.directive \in {"disable", "enable", "disable-line", "disable-next-line"}
    /\ vin.allowInlineConfig /\ ~vin.warnInlineConfig
    /\ c.kind = "Line" => c.directive \in {"disable-line", "disable-next-line"}
    /\ c.directive = "disable-line" => c.startLine = c.endLine

\* The directives of the result that stem from the comment: those of its
\* type at its anchor.
DirectivesFrom(c) ==
    SelectSeq(commentDirectives.disableDirectives,
        LAMBDA d : /\ d.type = c.directive
                   /\ IF c.directive = "disable-next-line"
                      THEN d.line = c.endLine /\ d.column = c.endColumn + 1
                      ELSE d.line = c.startLine /\ d.column = c.column + 1)

\* The problems of the result that lie at the comment.
ProblemsFrom(c) == ProblemsAt(commentDirectives.problems, c.startLine, c.column + 1)

\* C24: for a comment handed to createDisableDirectives there is exactly
\* one directive per listed rule id that is defined, exactly one non-fatal
\* problem at the comment and no directive per listed id that is not, and
\* exactly one directive with ruleId null when no rule is listed.
C24_OneDirectivePerRule ==
    vpc \in {"rules", "apply"} =>
        \A k \in DOMAIN vin.comments :
            LET c == vin.comments[k]
            IN  HandedToCreate(c) =>
                    /\ \A r \in Range(c.rules) :
                            IF r \in DefinedRules
                            THEN /\ Len(SelectSeq(DirectivesFrom(c), LAMBDA d : d.ruleId = r)) = 1
                                 /\ Len(SelectSeq(ProblemsFrom(c), LAMBDA q : q.ruleId = r)) = 0
                            ELSE /\ Len(SelectSeq(DirectivesFrom(c), LAMBDA d : d.ruleId = r)) = 0
                                 /\ Len(SelectSeq(ProblemsFrom(c), LAMBDA q : q.ruleId = r)) = 1
                    /\ \A i \in DOMAIN ProblemsFrom(c) :
                            /\ ~ProblemsFrom(c)[i].fatal
                            /\ ProblemsFrom(c)[i].ruleId \in Range(c.rules)
                    /\ c.rules # <<>> =>
                            \A i \in DOMAIN DirectivesFrom(c) :
                                DirectivesFrom(c)[i].ruleId \in Range(c.rules)
                    /\ c.rules = <<>> =>
                            /\ Len(DirectivesFrom(c)) = 1
                            /\ DirectivesFrom(c)[1].ruleId = "null"
                            /\ ProblemsFrom(c) = <<>>

\* C24 witness: a comment lists an undefined rule and a defined one; the
\* result holds one problem for the first and one directive for the second.
C24_Witness ==
    /\ vpc = "rules"
    /\ Len(vin.comments) = 1 /\ HandedToCreate(vin.comments[1])
    /\ vin.comments[1].rules = <<"u", "r1">>
    /\ Len(commentDirectives.disableDirectives) = 1
    /\ commentDirectives.disableDirectives[1].ruleId = "r1"
    /\ Len(commentDirectives.problems) = 1
    /\ commentDirectives.problems[1].ruleId = "u"

\* C24 witness: a disable-next-line comment without a rule list gives one
\* wildcard directive.
C24_WitnessWildcard ==
    /\ vpc = "rules"
    /\ Len(vin.comments) = 1 /\ HandedToCreate(vin.comments[1])
    /\ vin.comments[1].directive = "disable-next-line" /\ vin.comments[1].rules = <<>>
    /\ Len(commentDirectives.disableDirectives) = 1
    /\ commentDirectives.disableDirectives[1].ruleId = "null"

(***************************************************************************)
(* verify and getSuppressedMessages: the claims.                           *)
(***************************************************************************)
\* linter.getSuppressedMessages()
getSuppressedMessages == lastSuppressedMessages

\* C27: after a verify call the returned messages and
\* getSuppressedMessages() part the problems of the call: those carrying
\* `suppressions` are the suppressed messages, the others the returned
\* ones, each list in the order of the problems, and nothing of an earlier
\* call is left in getSuppressedMessages().
C27_MessagesPartitionProblems ==
    vpc = "done" =>
        /\ vmessages = SelectSeq(vproblems, LAMBDA m : m.suppressions = <<>>)
        /\ getSuppressedMessages = SelectSeq(vproblems, LAMBDA m : m.suppressions # <<>>)
        /\ Len(vmessages) + Len(getSuppressedMessages) = Len(vproblems)
        /\ \A i \in DOMAIN vmessages : vmessages[i].suppressions = <<>>
        /\ \A i \in DOMAIN getSuppressedMessages :
                /\ getSuppressedMessages[i].suppressions # <<>>
                /\ getSuppressedMessages[i] # SuppressedEarlier

\* C27 witness: the linter held a suppressed message of an earlier call;
\* this call suppressed one problem and returned another, and only the
\* first is in getSuppressedMessages().
C27_Witness ==
    /\ vpc = "done"
    /\ Len(vproblems) = 2 /\ Len(vmessages) = 1
    /\ vproblems[1].suppressions # <<>> /\ vproblems[2].suppressions = <<>>
    /\ getSuppressedMessages = <<vproblems[1]>>
    /\ vin.suppressedBefore = <<SuppressedEarlier>>

(***************************************************************************)
(* Inline configuration: the claims.                                       *)
(***************************************************************************)
\* runRules of the call has run.
RulesHaveRun == "runRules" \in Range(vsteps)

\* The comments of the text are read and none is answered with a warning.
InlineHonoured == vin.provided # "false" /\ ~vin.noInlineConfig

\* The places <<comment, entry>> of the text at which an eslint block
\* comment sets the rule: the rule is defined and its options are valid.
PlacesSetting(ruleId) ==
    {pl \in (DOMAIN vin.comments) \X (1..2) :
        LET c == vin.comments[pl[1]]
        IN  /\ c.kind = "Block" /\ c.directive = "eslint" /\ c.json
            /\ pl[2] \in DOMAIN c.config
            /\ c.config[pl[2]].name = ruleId
            /\ c.config[pl[2]].valid
            /\ ruleId \in DefinedRules}

\* The last of these places in the text.
LastPlace(places) ==
    CHOOSE pl \in places :
        \A other \in places :
            other[1] < pl[1] \/ (other[1] = pl[1] /\ other[2] <= pl[2])

\* The rules the call is to run with, and the value of each.
RulesExpected ==
    (DOMAIN vin.rulesGiven)
        \cup {r \in DefinedRules : InlineHonoured /\ PlacesSetting(r) # {}}

ValueExpected(ruleId) ==
    IF InlineHonoured /\ PlacesSetting(ruleId) # {}
    THEN LET pl == LastPlace(PlacesSetting(ruleId))
         IN  vin.comments[pl[1]].config[pl[2]].value
    ELSE vin.rulesGiven[ruleId]

\* C22: a valid inline `eslint` entry for a defined rule replaces the value
\* of the caller's config for this verify call only: the rules run with the
\* inline value where there is one and with the caller's value elsewhere,
\* config.rules holds what the caller put into it at every moment, a later
\* verify with the same config object on a text without the comment runs
\* with the caller's values, and an entry whose rule is undefined or whose
\* options are invalid gives one problem at the comment and sets nothing.
C22_InlineConfigIsOverlay ==
    /\ vin.rules = vin.rulesGiven
    /\ RulesHaveRun =>
            /\ DOMAIN configuredRules = RulesExpected
            /\ \A r \in RulesExpected : configuredRules[r] = ValueExpected(r)
            /\ ruleCalls.created = {r \in RulesExpected : ValueExpected(r) # "off"}
            /\ \A i \in DOMAIN lintingProblems :
                    LET q == lintingProblems[i]
                    IN  /\ q.ruleId \in RulesExpected
                        /\ ValueExpected(q.ruleId) = "warn" => q.severity = 1
                        /\ ValueExpected(q.ruleId) = "error" => q.severity = 2
                        /\ ValueExpected(q.ruleId) # "off"
    /\ (vin.call = 2 /\ RulesHaveRun) => configuredRules = vin.rulesGiven
    /\ (vpc \in {"rules", "apply"} /\ InlineHonoured) =>
            \A k \in DOMAIN vin.comments :
                LET c == vin.comments[k]
                IN  (c.kind = "Block" /\ c.directive = "eslint" /\ c.json) =>
                        \A i \in DOMAIN c.config :
                            (c.config[i].name \notin DefinedRules \/ ~c.config[i].valid) =>
                                Len(SelectSeq(ProblemsAt(commentDirectives.problems,
                                                         c.startLine, c.column + 1),
                                              LAMBDA q : q.ruleId = c.config[i].name)) = 1

\* C22 witness: the caller configured r1 as an error and a comment of the
\* text switches it off: r1 is not created, r2 is, and config.rules still
\* says error.
C22_Witness ==
    /\ vpc = "apply" /\ vin.call = 1
    /\ vin.rulesGiven = BaseRules
    /\ PlacesSetting("r1") # {}
    /\ configuredRules["r1"] = "off"
    /\ ruleCalls.created = {"r2"}
    /\ vin.rules["r1"] = "error"

\* C22 witness: the later call with the same config object runs r1 again.
C22_WitnessLater ==
    /\ vpc = "apply" /\ vin.call = 2
    /\ vin.rulesGiven = BaseRules
    /\ configuredRules = BaseRules
    /\ ruleCalls.created = {"r1", "r2"}
    /\ lintingProblems # <<>>

\* C22 witness: a comment sets an undefined rule and a defined one: one
\* problem for the first, and the second runs as a warning.
C22_WitnessUndefined ==
    /\ vpc = "apply"
    /\ Len(vin.comments) = 1
    /\ Len(commentDirectives.problems) = 1 /\ commentDirectives.problems[1].ruleId = "u"
    /\ configuredRules["r2"] = "warn"
    /\ \E i \in DOMAIN lintingProblems :
            lintingProblems[i].ruleId = "r2" /\ lintingProblems[i].severity = 1

\* C22 witness: options the validator rejects leave the rule as configured.
C22_WitnessInvalid ==
    /\ vpc = "apply"
    /\ Len(vin.comments) = 1 /\ vin.comments[1].directive = "eslint"
    /\ Len(vin.comments[1].config) = 1 /\ ~vin.comments[1].config[1].valid
    /\ Len(commentDirectives.problems) = 1 /\ commentDirectives.problems[1].ruleId = "r1"
    /\ configuredRules = vin.rulesGiven

\* C23: with allowInlineConfig false, verify reads no comment: there are no
\* disable directives, no inline rule values, no globals, exported
\* variables or environments from comments, and the problems returned are
\* exactly the reports of the rules, none suppressed; with allowInlineConfig
\* omitted, inline configuration is allowed and the comments are honoured.
C23_NoInlineConfig ==
    /\ vin.provided = "false" =>
            /\ ~vin.allowInlineConfig
            /\ commentDirectives = NoDirectives
            /\ envInFile = {}
            /\ "findEslintEnv" \notin Range(vsteps)
            /\ "getDirectiveComments" \notin Range(vsteps)
            /\ RulesHaveRun => configuredRules = vin.rulesGiven
            /\ (vpc \in {"returned", "done"} /\ RulesHaveRun) =>
                    /\ Len(vproblems) = Len(lintingProblems)
                    /\ \A i \in DOMAIN vproblems :
                            /\ vproblems[i].suppressions = <<>>
                            /\ vproblems[i] \in Range(lintingProblems)
            /\ (vpc = "done" /\ RulesHaveRun) => Len(vmessages) = Len(lintingProblems)
    /\ vin.provided = "undefined" =>
            /\ vin.allowInlineConfig
            /\ (vpc \in {"rules", "apply"} /\ ~vin.noInlineConfig) =>
                    /\ envInFile = vin.env
                    /\ \A k \in DOMAIN vin.comments :
                            LET c == vin.comments[k]
                            IN  /\ (c.kind = "Block" /\ c.directive = "disable" /\ c.rules = <<>>) =>
                                        \E i \in DOMAIN commentDirectives.disableDirectives :
                                            LET d == commentDirectives.disableDirectives[i]
                                            IN  /\ d.type = "disable" /\ d.ruleId = "null"
                                                /\ d.line = c.startLine /\ d.column = c.column + 1
                                /\ (c.kind = "Block" /\ c.directive = "exported") =>
                                        \A i \in DOMAIN c.config :
                                            c.config[i].name \in commentDirectives.exportedVariables

\* C23 witness: allowInlineConfig is false and the config says
\* noInlineConfig; the text holds a disable-line comment covering the line
\* of a report and an eslint-env comment; the report is returned, and no
\* warning about the comment.
C23_Witness ==
    /\ vpc = "done"
    /\ vin.provided = "false" /\ vin.noInlineConfig
    /\ vin.env # {}
    /\ Len(vin.comments) = 1
    /\ vin.comments[1].directive = "disable-line" /\ vin.comments[1].rules = <<>>
    /\ vin.comments[1].startLine = vin.comments[1].endLine
    /\ Len(vmessages) = 1
    /\ vmessages[1].line = vin.comments[1].startLine

\* C23 witness: allowInlineConfig is false and the text holds an eslint
\* comment switching r1 off; r1 runs and reports.
C23_WitnessOverlay ==
    /\ vpc = "done" /\ vin.call = 1
    /\ vin.provided = "false"
    /\ PlacesSetting("r1") # {}
    /\ vin.comments[1].config[1].value = "off"
    /\ \E i \in DOMAIN vmessages : vmessages[i].ruleId = "r1"

\* C23 witness: allowInlineConfig is omitted and a disable comment
\* suppresses a report.
C23_WitnessDefault ==
    /\ vpc = "done" /\ vin.call = 1
    /\ vin.provided = "undefined"
    /\ Len(vin.comments) = 1 /\ vin.comments[1].directive = "disable"
    /\ lastSuppressedMessages # <<>>
    /\ lastSuppressedMessages # vin.suppressedBefore

(***************************************************************************)
(* The rule registry: the claims.                                          *)
(***************************************************************************)
\* The define() calls made for the id.
DefinesOf(ruleId) == {k \in DOMAIN defines : defines[k].id = ruleId}

\* What a lookup in the registry is to give: the rule of the last define()
\* for the id as an object with a create method, else the built-in rule,
\* else null.
RuleExpected(ruleId) ==
    IF DefinesOf(ruleId) # {}
    THEN [type |-> "object", origin |-> "defined",
          serial |-> Greatest(DefinesOf(ruleId)), create |-> TRUE]
    ELSE IF ruleId \in BuiltInIds
    THEN [type |-> "object", origin |-> "builtin", serial |-> 0, create |-> TRUE]
    ELSE NullRule

\* C26: after any sequence of define() calls, get(id) returns the rule
\* defined last for the id, as an object with a create method and also
\* when a built-in rule has the id; else the built-in rule; else null.
\* getRule returns the plugin rule of the last config array when it has one
\* for the id, and what get returns otherwise.
C26_LookupOrder ==
    /\ got.via = "get" => got.result = RuleExpected(got.id)
    /\ got.via = "getRule" =>
            IF /\ ~lastConfigArray.isNull
               /\ got.id \in lastConfigArray.pluginRules
            THEN got.result.origin = "plugin"
            ELSE got.result = RuleExpected(got.id)
    /\ got.via # "none" => (got.result = NullRule \/ got.result.create)

\* C26 witness: the id of the built-in rule was defined twice, last as a
\* function, and get returned the second definition with a create method.
C26_Witness ==
    /\ got.via = "get" /\ got.id = "b"
    /\ Cardinality(DefinesOf("b")) = 2
    /\ defines[Greatest(DefinesOf("b"))].type = "function"
    /\ got.result.origin = "defined" /\ got.result.create
    /\ got.result.serial = Greatest(DefinesOf("b"))

\* C26 witness: an id nobody defined gives null.
C26_WitnessNull ==
    /\ got.via = "get" /\ got.id = "x" /\ got.result = NullRule /\ defines # <<>>

\* C26 witness: getRule returns the plugin rule although the id is defined
\* and built in.
C26_WitnessPlugin ==
    /\ got.via = "getRule" /\ got.id = "b"
    /\ DefinesOf("b") # {}
    /\ got.result.origin = "plugin"

\* C26 witness: a rule defined by the path of its file is loaded by get.
C26_WitnessPath ==
    /\ got.via = "get" /\ DefinesOf(got.id) # {}
    /\ defines[Greatest(DefinesOf(got.id))].type = "string"
    /\ got.result.type = "object" /\ got.result.create

====
